---- MODULE Spec2Model ----
(***************************************************************************)
(* The animation acquisition pipeline of unity-mcp-mixamo: the standalone  *)
(* MCP client (mixamo_mcp/client.py: search, download, batch_download) and *)
(* the Unity-MCP service (services/mixamo_service.py behind                *)
(* services/manage_mixamo.py).  Each call runs as a sequence of steps, one *)
(* step per remote request; the remote service and the local disk answer   *)
(* nondeterministically.                                                   *)
(***************************************************************************)
EXTENDS Integers, Sequences, FiniteSets, TLC

(***************************************************************************)
(* Strings.  Python's str operations, computed on TLC strings.             *)
(***************************************************************************)
Upper == "ABCDEFGHIJKLMNOPQRSTUVWXYZ"
Lower == "abcdefghijklmnopqrstuvwxyz"
Digits == "0123456789"

CharAt(s, i) == SubSeq(s, i, i)

\* c in s, for a one-character string c
CharIn(c, s) == \E i \in 1..Len(s) : CharAt(s, i) = c

\* Python: a in b (substring test; the empty string is in every string)
IsSubstr(a, b) ==
    \/ Len(a) = 0
    \/ \E i \in 1..(Len(b) - Len(a) + 1) : SubSeq(b, i, i + Len(a) - 1) = a

\* Python: s.endswith(t)
EndsWith(s, t) == Len(s) >= Len(t) /\ SubSeq(s, Len(s) - Len(t) + 1, Len(s)) = t

LowerChar(c) ==
    IF CharIn(c, Upper)
    THEN CharAt(Lower, CHOOSE i \in 1..Len(Upper) : CharAt(Upper, i) = c)
    ELSE c

RECURSIVE LowerFrom(_, _)
LowerFrom(s, i) ==
    IF i > Len(s) THEN "" ELSE LowerChar(CharAt(s, i)) \o LowerFrom(s, i + 1)

\* Python: s.lower()
StrLower(s) == LowerFrom(s, 1)

IsSpace(c) == c = " "

\* Python: s.strip()
StrStrip(s) ==
    LET idx == {i \in 1..Len(s) : ~IsSpace(CharAt(s, i))}
    IN  IF idx = {} THEN ""
        ELSE SubSeq(s, CHOOSE i \in idx : \A j \in idx : i <= j,
                       CHOOSE i \in idx : \A j \in idx : i >= j)

\* Python: c.isalnum(), for the characters of ASCII
IsAlnum(c) == CharIn(c, Upper) \/ CharIn(c, Lower) \/ CharIn(c, Digits)

\* Python: "".join(c if c.isalnum() or c in "._- " else "_" for c in s)
RECURSIVE KeepFrom(_, _)
KeepFrom(s, i) ==
    IF i > Len(s) THEN ""
    ELSE (IF IsAlnum(CharAt(s, i)) \/ CharIn(CharAt(s, i), "._- ") THEN CharAt(s, i)
          ELSE "_") \o KeepFrom(s, i + 1)

\* Python: s.replace(" ", "_")
RECURSIVE UnderscoreFrom(_, _)
UnderscoreFrom(s, i) ==
    IF i > Len(s) THEN ""
    ELSE (IF CharAt(s, i) = " " THEN "_" ELSE CharAt(s, i)) \o UnderscoreFrom(s, i + 1)

\* Python: a list without its later duplicates, first occurrences kept in order
RECURSIVE DedupFrom(_, _, _)
DedupFrom(xs, i, acc) ==
    IF i > Len(xs) THEN acc
    ELSE DedupFrom(xs, i + 1,
                   IF \E j \in 1..Len(acc) : acc[j] = xs[i] THEN acc
                   ELSE Append(acc, xs[i]))

Dedup(xs) == DedupFrom(xs, 1, <<>>)

(***************************************************************************)
(* The static synonym tables, in the dictionaries' insertion order.        *)
(***************************************************************************)
KEYWORD_MAPPINGS ==
    << <<"idle", <<"idle", "breathing idle", "standing idle", "happy idle">> >>,
       <<"walk", <<"walking", "walk", "strut walk", "sneaking">> >>,
       <<"run", <<"running", "run", "jog", "sprint", "fast run">> >>,
       <<"jump", <<"jump", "jumping", "hop", "leap", "running jump">> >>,
       <<"crouch", <<"crouch", "crouching", "sneaking", "stealth">> >>,
       <<"crawl", <<"crawl", "crawling", "prone">> >>,
       <<"climb", <<"climb", "climbing", "ladder climb">> >>,
       <<"swim", <<"swim", "swimming", "treading water">> >>,
       <<"fall", <<"falling", "fall", "falling idle">> >>,
       <<"land", <<"landing", "land", "hard landing">> >>,
       <<"slide", <<"slide", "sliding", "baseball slide">> >>,
       <<"roll", <<"roll", "rolling", "combat roll", "dive roll">> >>,
       <<"strafe", <<"strafe", "strafing", "side step">> >>,
       <<"turn", <<"turn", "turning", "turn around", "180 turn">> >>,
       <<"attack", <<"attack", "slash", "strike", "hit">> >>,
       <<"punch", <<"punch", "punching", "jab", "hook", "uppercut", "cross punch">> >>,
       <<"kick", <<"kick", "kicking", "roundhouse", "front kick", "side kick">> >>,
       <<"sword", <<"sword", "sword slash", "sword attack", "great sword">> >>,
       <<"block", <<"block", "blocking", "shield block", "parry">> >>,
       <<"dodge", <<"dodge", "dodging", "evade", "sidestep">> >>,
       <<"shoot", <<"shoot", "shooting", "rifle", "pistol", "aim">> >>,
       <<"reload", <<"reload", "reloading", "magazine">> >>,
       <<"throw", <<"throw", "throwing", "grenade throw">> >>,
       <<"hit", <<"hit reaction", "take damage", "get hit", "impact">> >>,
       <<"death", <<"death", "dying", "die", "killed">> >>,
       <<"knockdown", <<"knockdown", "knocked down", "fall back">> >>,
       <<"wave", <<"wave", "waving", "greeting", "hello">> >>,
       <<"bow", <<"bow", "bowing", "respect">> >>,
       <<"clap", <<"clap", "clapping", "applause">> >>,
       <<"cheer", <<"cheer", "cheering", "celebration", "victory">> >>,
       <<"laugh", <<"laugh", "laughing", "lol">> >>,
       <<"cry", <<"cry", "crying", "sad", "sobbing">> >>,
       <<"angry", <<"angry", "rage", "frustrated">> >>,
       <<"shrug", <<"shrug", "confused", "I don't know">> >>,
       <<"point", <<"point", "pointing", "gesture">> >>,
       <<"talk", <<"talk", "talking", "conversation", "arguing">> >>,
       <<"sit", <<"sit", "sitting", "sit down", "seated">> >>,
       <<"sleep", <<"sleep", "sleeping", "lay down">> >>,
       <<"pray", <<"pray", "praying", "kneel">> >>,
       <<"salute", <<"salute", "military salute">> >>,
       <<"taunt", <<"taunt", "taunting", "provoke">> >>,
       <<"think", <<"think", "thinking", "pondering">> >>,
       <<"nod", <<"nod", "nodding", "yes">> >>,
       <<"shake head", <<"shake head", "no", "disagree">> >>,
       <<"dance", <<"dance", "dancing", "groove">> >>,
       <<"hip hop", <<"hip hop", "hip hop dance", "breakdance">> >>,
       <<"salsa", <<"salsa", "salsa dancing", "latin dance">> >>,
       <<"ballet", <<"ballet", "pirouette", "ballet dance">> >>,
       <<"robot", <<"robot", "robot dance", "robotic">> >>,
       <<"macarena", <<"macarena">> >>,
       <<"twerk", <<"twerk", "twerking">> >>,
       <<"moonwalk", <<"moonwalk">> >>,
       <<"breakdance", <<"breakdance", "breaking", "b-boy">> >>,
       <<"shuffle", <<"shuffle", "shuffling">> >>,
       <<"baseball", <<"baseball", "batting", "pitching", "catching">> >>,
       <<"basketball", <<"basketball", "dribble", "shoot ball", "dunk">> >>,
       <<"soccer", <<"soccer", "football", "kick ball", "header">> >>,
       <<"golf", <<"golf", "golf swing", "putting">> >>,
       <<"tennis", <<"tennis", "forehand", "backhand", "serve">> >>,
       <<"boxing", <<"boxing", "boxer", "fighting stance">> >>,
       <<"martial arts", <<"martial arts", "karate", "kung fu", "taekwondo">> >>,
       <<"pickup", <<"pickup", "pick up", "grab", "collect">> >>,
       <<"use", <<"use", "interact", "activate", "press button">> >>,
       <<"push", <<"push", "pushing", "shove">> >>,
       <<"pull", <<"pull", "pulling", "drag">> >>,
       <<"carry", <<"carry", "carrying", "hold">> >>,
       <<"drink", <<"drink", "drinking">> >>,
       <<"eat", <<"eat", "eating">> >>,
       <<"phone", <<"phone", "cellphone", "texting">> >>,
       <<"type", <<"type", "typing", "keyboard">> >>,
       <<"look", <<"look", "looking", "look around">> >> >>

ANIMATION_KEYWORD_MAP ==
    << <<"run", <<"running", "run", "jog", "sprint">> >>,
       <<"walk", <<"walking", "walk", "stroll">> >>,
       <<"jump", <<"jump", "jumping", "leap", "hop">> >>,
       <<"crouch", <<"crouch", "crouching", "sneaking", "sneak", "stealth">> >>,
       <<"crawl", <<"crawl", "crawling", "prone">> >>,
       <<"idle", <<"idle", "breathing", "standing", "wait">> >>,
       <<"sit", <<"sitting", "sit", "seated">> >>,
       <<"lay", <<"laying", "lay", "lying", "prone">> >>,
       <<"attack", <<"punch", "kick", "slash", "strike", "attack", "hit">> >>,
       <<"punch", <<"punch", "jab", "hook", "uppercut">> >>,
       <<"kick", <<"kick", "roundhouse", "front kick">> >>,
       <<"sword", <<"sword", "slash", "sword attack", "melee">> >>,
       <<"shoot", <<"shoot", "shooting", "aim", "fire", "gun">> >>,
       <<"block", <<"block", "blocking", "defend", "guard">> >>,
       <<"dodge", <<"dodge", "evade", "roll", "sidestep">> >>,
       <<"pick", <<"pick up", "pickup", "grab", "take">> >>,
       <<"throw", <<"throw", "throwing", "toss">> >>,
       <<"push", <<"push", "pushing", "shove">> >>,
       <<"pull", <<"pull", "pulling", "drag">> >>,
       <<"wave", <<"wave", "waving", "greeting", "hello">> >>,
       <<"dance", <<"dance", "dancing", "groove">> >>,
       <<"die", <<"death", "die", "dying", "fall", "collapse">> >>,
       <<"hurt", <<"hurt", "pain", "hit reaction", "damage">> >>,
       <<"celebrate", <<"celebrate", "victory", "cheer", "triumph">> >>,
       <<"taunt", <<"taunt", "mock", "provoke">> >>,
       <<"climb", <<"climb", "climbing", "scale", "ascend">> >>,
       <<"hang", <<"hang", "hanging", "ledge">> >>,
       <<"swim", <<"swim", "swimming", "float">> >>,
       <<"fly", <<"fly", "flying", "hover", "float">> >> >>

(***************************************************************************)
(* Keyword expansion.                                                      *)
(***************************************************************************)
\* keywords.py get_search_queries: exact key, else the first key in table
\* order that contains or is contained in the keyword, else the keyword.
get_search_queries(keyword) ==
    LET keyword_lower == StrStrip(StrLower(keyword))
        T == KEYWORD_MAPPINGS
        direct == {i \in 1..Len(T) : T[i][1] = keyword_lower}
        partial == {i \in 1..Len(T) :
                      IsSubstr(keyword_lower, T[i][1]) \/ IsSubstr(T[i][1], keyword_lower)}
    IN  IF direct # {} THEN T[CHOOSE i \in direct : TRUE][2]
        ELSE IF partial # {}
             THEN T[CHOOSE i \in partial : \A j \in partial : i <= j][2]
             ELSE <<keyword>>

\* mixamo_service.py expand_search_keywords: the lowered, stripped query
\* first; for each entry, its variations once if the key matches and once
\* more if one of its variations matches; duplicates dropped at the end.
RECURSIVE ExpandFrom(_, _, _)
ExpandFrom(query_lower, i, expanded) ==
    LET T == ANIMATION_KEYWORD_MAP
        key == T[i][1]
        variations == T[i][2]
        keyHit == IsSubstr(key, query_lower) \/ IsSubstr(query_lower, key)
        varHit == \E j \in 1..Len(variations) :
                     IsSubstr(variations[j], query_lower) \/ IsSubstr(query_lower, variations[j])
        afterKey == IF keyHit THEN expanded \o variations ELSE expanded
        afterVar == IF varHit THEN afterKey \o variations ELSE afterKey
    IN  IF i > Len(T) THEN expanded ELSE ExpandFrom(query_lower, i + 1, afterVar)

\* expand_search_keywords that takes the query as it was typed
expand_search_keywords_Raw(query) ==
    Dedup(ExpandFrom(query, 1, <<query>>))

\* expand_search_keywords that lowers the query and leaves its blanks
expand_search_keywords_Unstripped(query) ==
    Dedup(ExpandFrom(StrLower(query), 1, <<StrLower(query)>>))

expand_search_keywords(query) ==
    LET query_lower == StrStrip(StrLower(query))
    IN  Dedup(ExpandFrom(query_lower, 1, <<query_lower>>))

(***************************************************************************)
(* Bounds of the model.                                                    *)
(***************************************************************************)
\* longest keyword list handed to a batch
MaxKeywords == 3
\* most items in one remote search response
MaxResults == 2
\* largest limit passed to a standalone search
MaxLimit == 2

(***************************************************************************)
(* Program constants.                                                      *)
(***************************************************************************)
\* client.py download: for attempt in range(30)
ClientMaxAttempts == 30
\* mixamo_service.py _monitor_export: max_attempts: int = 60
ServiceMaxAttempts == 60
\* mixamo_service.py search_animations: search_terms[:3]
ServiceMaxTerms == 3
\* manage_mixamo.py handle_search: limit: int = 10
HandleSearchLimit == 10

DEFAULT_CHARACTER_ID == "bd5c7f38-3eda-4bf5-9fb8-cc338e1bde8a"

\* the messages the code builds
NOT_AUTH_MSG == "Not authenticated. Please run mixamo-auth first with your access token."
AUTH_FAILED_SEARCH_MSG ==
    "Authentication failed. Token may be expired. Please run mixamo-auth with a new token."
ALL_FAILED_MSG == "All search queries failed. Check your network connection."
CLIENT_JOB_FAILED_MSG == "Export job failed on Mixamo server"
CLIENT_TIMEOUT_MSG == "Timeout waiting for download URL (60s)"
SERVICE_JOB_FAILED_MSG == "Export failed"
SERVICE_TIMEOUT_MSG == "Export timed out"
SERVICE_AUTH_MSG == "Authentication failed. Please provide a valid access token."
SERVICE_RATE_MSG == "Rate limit exceeded. Please wait before retrying."
TOKEN_REQUIRED_MSG ==
    "Access token required. Get it from mixamo.com browser console: localStorage.access_token"
\* what Python reports when SearchResult is constructed with the keyword
\* error, a field the dataclass of models.py does not declare
SEARCHRESULT_TYPEERROR == "SearchResult.__init__() got an unexpected keyword argument 'error'"

\* values that stand for Python's None and for a key absent from a JSON object
None == "<None>"
Absent == "<absent>"

\* Python truthiness of a string-or-None value
Truthy(v) == v # None /\ v # Absent /\ v # ""

\* dict.get(key, default) for a value that is Absent when the key is missing
Get(v, default) == IF v = Absent THEN default ELSE v

(***************************************************************************)
(* The remote service and the local disk.  A transport-layer failure       *)
(* (httpx.RequestError) is written as status 0.                            *)
(***************************************************************************)
TransportError == 0
TRANSPORT_MSG == "connection failed"
RESPONSE_TEXT == "remote error body"
URL1 == "https://cdn/one.fbx"
URL2 == "https://cdn/two.fbx"
SERVER_MSG == "Retargeting failed for this character"

\* the catalogue items a search response may list
Catalog ==
    { [id |-> "abc123", name |-> "Running", description |-> "Fast Run!"],
      [id |-> "def456", name |-> "Run Fast!.fbx", description |-> "Jog In Place"],
      [id |-> "", name |-> "Nameless", description |-> "No Id"] }

LeanCatalog == { it \in Catalog : it.id = "abc123" }

\* a run over more than one keyword draws the answers from the lean sets
Lean(keywords) == Len(keywords) > 1

ResultLists(lean) ==
    IF lean THEN { <<>> } \cup { <<it>> : it \in LeanCatalog }
    ELSE UNION { [1..n -> Catalog] : n \in 0..MaxResults }

SearchResponses(lean) ==
    { [status |-> s, results |-> <<>>] :
        s \in IF lean THEN {500} ELSE {TransportError, 401, 500} }
    \cup { [status |-> 200, results |-> rs] : rs \in ResultLists(lean) }

DetailsStatuses(lean) == IF lean THEN {200} ELSE {TransportError, 200, 404}

ExportStatuses(lean) ==
    IF lean THEN {202, 404} ELSE {TransportError, 200, 201, 202, 401, 404, 429, 500}

\* a monitor answer: transport status, and for a 200 the JSON fields
PollResponse(s, st, jr, m) == [status |-> s, job |-> st, job_result |-> jr, message |-> m]

NoPoll == PollResponse(-1, Absent, Absent, Absent)

\* in place of the status of a monitor answer: its body is not JSON, and
\* what response.json() raises for it
Malformed == "<not json>"
JSON_MSG == "Expecting value: line 1 column 1 (char 0)"

\* no export request of the item has been answered yet
NoExport == -1

\* what is kept of the answers to the search requests of an item: the status
\* of the latest one, whether any of them was a success, and whether any of
\* them repeated an identifier; none yet
SearchSeen(status, ok, repeat) == [status |-> status, ok |-> ok, repeat |-> repeat]
NoSearch == SearchSeen(-1, FALSE, FALSE)

\* the answer r brings an identifier a second time: one already among anims,
\* or one it lists twice
Repeats(anims, r) ==
    /\ r.status = 200
    /\ \E i \in 1..Len(r.results) :
          \/ \E j \in 1..Len(anims) : anims[j].id = r.results[i].id
          \/ \E k \in 1..(i - 1) : r.results[k].id = r.results[i].id

PollResponses(lean) ==
    IF lean
    THEN { PollResponse(200, "processing", Absent, Absent),
           PollResponse(200, "completed", URL1, Absent),
           PollResponse(200, "failed", Absent, SERVER_MSG) }
    ELSE { PollResponse(TransportError, Absent, Absent, Absent),
           PollResponse(500, Absent, Absent, Absent),
           PollResponse(200, Malformed, Absent, Absent),
           PollResponse(200, "processing", Absent, Absent),
           PollResponse(200, "processing", URL2, Absent),
           PollResponse(200, "queued", Absent, Absent),
           PollResponse(200, "completed", Absent, Absent),
           PollResponse(200, "completed", "", Absent),
           PollResponse(200, "completed", URL1, Absent),
           PollResponse(200, "completed", URL2, Absent),
           PollResponse(200, "failed", Absent, Absent),
           PollResponse(200, "failed", Absent, SERVER_MSG) }

\* what the retrieval request and the write that follows it meet
RetrievalOutcomes(lean) ==
    IF lean THEN {"ok", "status404", "write_error"}
    ELSE {"ok", "status404", "status500", "transport_error", "mkdir_error", "write_error"}

(***************************************************************************)
(* State.                                                                  *)
(***************************************************************************)
VARIABLES
    op,        \* the entry point called: search, download, batch_download, manage_mixamo
    args,      \* the arguments of the call
    pc,        \* the step the call is at
    idx,       \* batch: the position of the keyword in progress (0 before the first)
    results,   \* batch: the records appended so far
    loc,       \* the locals of the item in progress
    job,       \* service: the DownloadJob of the item in progress
    reqs,      \* the remote requests issued for the item in progress, by endpoint
    lastPoll,  \* the latest monitor answer of the item in progress
    lastExport, \* the status the export request of the item in progress was answered with
    lastSearch, \* the latest answer to a search request of the item in progress
    ret,       \* how the call ended: a returned value or a raised exception
    disk,      \* the files under the output directory
    session,   \* the HTTP session of the client or service instance
    cancelled  \* the caller has cancelled the call

vars ==
    <<op, args, pc, idx, results, loc, job, reqs, lastPoll, lastExport, lastSearch, ret,
      disk, session, cancelled>>

NoRequests ==
    [characters |-> 0, search |-> 0, details |-> 0, export |-> 0, monitor |-> 0,
     retrieve |-> 0, upload |-> 0]

Issued(kind) == [reqs EXCEPT ![kind] = @ + 1]

\* a file on the disk: its path, and whether all of its content was written
File(path, whole) == [path |-> path, whole |-> whole]

\* open(path, "wb") and the writes that follow: the file, as far as written
Written(path, whole) == { f \in disk : f.path # path } \cup { File(path, whole) }

\* self._client: whether an open session is held, and how many sessions the
\* instance has created and closed
NoSession == [open |-> FALSE, created |-> 0, closed |-> 0]

\* a _get_client that opens a new session for every request
get_client_Fresh(s) == [s EXCEPT !.open = TRUE, !.created = @ + 1]

\* _get_client: the open session, or a new one when none is open
get_client(s) == IF s.open THEN s ELSE [s EXCEPT !.open = TRUE, !.created = @ + 1]

\* close: closes the session if one is open
close(s) == IF s.open THEN [s EXCEPT !.open = FALSE, !.closed = @ + 1] ELSE s

\* the session after a step: every request of the step goes through
\* _get_client, and manage_mixamo closes its service in its finally clause
\* when it ends
SessionAfter ==
    LET requested == reqs' # reqs /\ reqs' # NoRequests
        used == IF requested THEN get_client(session) ELSE session
        constructed == op = "manage_mixamo" /\ args.operation # "list_keywords" /\ args.token
    IN  IF constructed /\ pc' = "done" THEN close(used) ELSE used

TotalRequests ==
    reqs.characters + reqs.search + reqs.details + reqs.export + reqs.monitor
    + reqs.retrieve + reqs.upload

NoLoc ==
    [kw |-> None, terms |-> <<>>, t |-> 0, limit |-> 0, anims |-> <<>>,
     any_success |-> FALSE, last_error |-> None, animation_id |-> None,
     animation_name |-> None, download_url |-> None, attempt |-> 0]

\* mixamo_service.py DownloadJob
DownloadJob(status, download_url, error_message) ==
    [status |-> status, download_url |-> download_url, error_message |-> error_message]

NoJob == DownloadJob(None, None, None)

NoRet == [kind |-> "running", value |-> None]
Return(v) == [kind |-> "return", value |-> v]
Raise(cls, msg) == [kind |-> "raise", value |-> [class |-> cls, message |-> msg]]

\* models.py DownloadResult
DownloadResult(success, animation_name, file_path, error) ==
    [success |-> success, animation_name |-> animation_name, file_path |-> file_path,
     error |-> error]

(***************************************************************************)
(* The calls a run may make.                                               *)
(***************************************************************************)
SomeUuid == "c9c8a6e0-11d4-4f1a-9a3e-0123456789AB"

Queries == {"run", "xyz-unknown"}

KeywordPool == <<" Twerk ", SomeUuid, "xyz-unknown", "macarena">>

\* the keyword lists of the batches: the pool, repeated as far as needed
KeywordList(n) == [i \in 1..n |-> KeywordPool[((i - 1) % Len(KeywordPool)) + 1]]

\* and one keyword whose expansion has several terms, alone
KeywordLists == { KeywordList(n) : n \in 0..MaxKeywords } \cup { <<"run">> }

Call(o, tk, q, l, ks, cd, operation, od, ci, cp) ==
    [op |-> o, token |-> tk, query |-> q, limit |-> l, keywords |-> ks,
     charDefault |-> cd, operation |-> operation, output_dir |-> od,
     character_id |-> ci, character_path |-> cp]

ClientCalls ==
    { Call("search", tk, q, l, <<>>, FALSE, None, FALSE, FALSE, FALSE) :
        tk \in BOOLEAN, q \in Queries, l \in 1..MaxLimit }
    \cup
    { Call("download", tk, q, 1, <<>>, cd, None, TRUE, FALSE, FALSE) :
        tk \in BOOLEAN, q \in Queries \cup {SomeUuid}, cd \in BOOLEAN }
    \cup
    { Call("batch_download", tk, None, 1, ks, FALSE, None, TRUE, FALSE, FALSE) :
        tk \in BOOLEAN, ks \in KeywordLists }
    \cup
    { Call("batch_download", TRUE, None, 1, ks, TRUE, None, TRUE, FALSE, FALSE) :
        ks \in { l \in KeywordLists : Len(l) = 1 } }

ServiceCalls ==
    { Call("manage_mixamo", tk, None, HandleSearchLimit, <<>>, FALSE, o, FALSE, FALSE,
           FALSE) :
        tk \in BOOLEAN, o \in {"list_keywords", "configure", "dance"} }
    \cup
    { Call("manage_mixamo", tk, q, HandleSearchLimit, <<>>, FALSE, "search", FALSE,
           FALSE, FALSE) :
        tk \in BOOLEAN, q \in {None} \cup Queries }
    \cup
    { Call("manage_mixamo", tk, None, HandleSearchLimit, ks, FALSE, "fetch", od, ci,
           FALSE) :
        tk \in BOOLEAN, ks \in KeywordLists, od \in BOOLEAN, ci \in BOOLEAN }
    \cup
    { Call("manage_mixamo", tk, None, HandleSearchLimit, <<>>, FALSE, "upload", FALSE,
           FALSE, cp) :
        tk \in BOOLEAN, cp \in BOOLEAN }
    \cup
    { Call("get_primary_character", TRUE, None, 1, <<>>, FALSE, None, FALSE, FALSE,
           FALSE) }

Calls == ClientCalls \cup ServiceCalls

Init ==
    /\ \E c \in Calls : args = c /\ op = c.op /\ pc = c.op
    /\ idx = 0
    /\ results = <<>>
    /\ loc = NoLoc
    /\ job = NoJob
    /\ reqs = NoRequests
    /\ lastPoll = NoPoll
    /\ lastExport = NoExport
    /\ lastSearch = NoSearch
    /\ ret = NoRet
    /\ disk = {}
    /\ session = NoSession
    /\ cancelled = FALSE

(***************************************************************************)
(* MixamoClient (mixamo_mcp/client.py).                                    *)
(***************************************************************************)
IsHex(c) == CharIn(c, Digits) \/ CharIn(c, "abcdefABCDEF")

\* client.py _is_uuid: 8-4-4-4-12 hexadecimal digits, case ignored
is_uuid(value) ==
    /\ Len(value) = 36
    /\ \A i \in 1..36 :
          IF i \in {9, 14, 19, 24} THEN CharAt(value, i) = "-"
          ELSE IsHex(CharAt(value, i))

\* the keyword the item in progress was called with
CurrentKeyword ==
    IF op = "batch_download" THEN StrStrip(args.keywords[idx]) ELSE args.query

\* download returns its DownloadResult: to the caller, or to batch_download,
\* which appends it to results
C_Finish(rec) ==
    IF op = "batch_download"
    THEN /\ results' = Append(results, rec)
         /\ pc' = "pace"
         /\ ret' = ret
    ELSE /\ ret' = Return(rec)
         /\ pc' = "done"
         /\ results' = results

\* an exception no handler of download or batch_download catches
C_Propagate(cls, msg) ==
    /\ ret' = Raise(cls, msg)
    /\ pc' = "done"
    /\ results' = results

\* batch_download up to its loop: the character folder is created
C_batch_download ==
    /\ pc = "batch_download"
    /\ \E mkdir_ok \in BOOLEAN :
          IF ~mkdir_ok
          THEN /\ ret' = Raise("OSError", "mkdir")
               /\ pc' = "done"
               /\ idx' = idx
          ELSE IF Len(args.keywords) = 0
          THEN /\ ret' = Return([total |-> 0, successful |-> 0, failed |-> 0,
                                 results |-> <<>>])
               /\ pc' = "done"
               /\ idx' = idx
          ELSE /\ ret' = ret
               /\ pc' = "download"
               /\ idx' = 1
    /\ UNCHANGED <<op, args, results, loc, job, reqs, lastPoll, lastExport, lastSearch>>
    /\ session' = SessionAfter
    /\ UNCHANGED <<disk, cancelled>>

\* download: the credential check, before any request
C_download ==
    /\ pc = "download"
    /\ IF ~args.token
       THEN /\ C_Finish(DownloadResult(FALSE, CurrentKeyword, "", NOT_AUTH_MSG))
            /\ loc' = loc
       ELSE /\ pc' = IF args.charDefault THEN "characters" ELSE "resolve"
            /\ loc' = [NoLoc EXCEPT !.kw = CurrentKeyword]
            /\ UNCHANGED <<results, ret>>
    /\ UNCHANGED <<op, args, idx, job, reqs, lastPoll, lastExport, lastSearch>>
    /\ session' = SessionAfter
    /\ UNCHANGED <<disk, cancelled>>

\* get_primary_character_id: one request; every failure is swallowed and the
\* default character is kept
C_get_primary_character_id ==
    /\ pc = "characters"
    /\ reqs' = Issued("characters")
    /\ pc' = "resolve"
    /\ UNCHANGED <<op, args, idx, results, loc, job, lastPoll, lastExport, lastSearch, ret>>
    /\ session' = SessionAfter
    /\ UNCHANGED <<disk, cancelled>>

\* search up to its loop: terms from the keyword table
SearchLocals(kw, limit) ==
    [NoLoc EXCEPT !.kw = kw, !.terms = get_search_queries(kw), !.t = 1,
                  !.limit = limit]

\* download: an identifier is exported as it is, a name is searched first
C_resolve ==
    /\ pc = "resolve"
    /\ IF is_uuid(loc.kw)
       THEN /\ loc' = [loc EXCEPT !.animation_id = loc.kw, !.animation_name = loc.kw]
            /\ pc' = "details"
       ELSE /\ loc' = SearchLocals(loc.kw, 1)
            /\ pc' = "search"
    /\ UNCHANGED <<op, args, idx, results, job, reqs, lastPoll, lastExport, lastSearch, ret>>
    /\ session' = SessionAfter
    /\ UNCHANGED <<disk, cancelled>>

\* search called by itself: the credential check constructs a SearchResult
\* with the keyword error, which the dataclass rejects
C_search ==
    /\ pc = "search" /\ op = "search" /\ loc.t = 0
    /\ IF ~args.token
       THEN /\ ret' = Raise("TypeError", SEARCHRESULT_TYPEERROR)
            /\ pc' = "done"
            /\ loc' = loc
       ELSE /\ loc' = SearchLocals(args.query, args.limit)
            /\ UNCHANGED <<pc, ret>>
    /\ UNCHANGED <<op, args, idx, results, job, reqs, lastPoll, lastExport, lastSearch>>
    /\ session' = SessionAfter
    /\ UNCHANGED <<disk, cancelled>>

\* an inner loop that puts each new item in front of the results
RECURSIVE C_Merge_InFront(_, _, _, _)
C_Merge_InFront(anims, items, i, limit) ==
    IF i > Len(items) THEN anims
    ELSE LET anim_id == items[i].id
             fresh == anim_id # "" /\ \A j \in 1..Len(anims) : anims[j].id # anim_id
             next == IF fresh THEN <<items[i]>> \o anims ELSE anims
         IN  IF fresh /\ Len(next) >= limit THEN next
             ELSE C_Merge_InFront(next, items, i + 1, limit)

\* the inner loop of search over one response's results: items with an
\* identifier not seen before are appended until limit is reached
RECURSIVE C_Merge(_, _, _, _)
C_Merge(anims, items, i, limit) ==
    IF i > Len(items) THEN anims
    ELSE LET anim_id == items[i].id
             fresh == anim_id # "" /\ \A j \in 1..Len(anims) : anims[j].id # anim_id
             next == IF fresh THEN Append(anims, items[i]) ELSE anims
         IN  IF fresh /\ Len(next) >= limit THEN next
             ELSE C_Merge(next, items, i + 1, limit)

\* whether the loop of search runs another pass: a term is left and limit
\* is not reached
C_SearchAgain(l) == l.t <= Len(l.terms) /\ Len(l.anims) < l.limit

\* a loop body that leaves the loop on a failed term
C_OnSearch_FailureEnds(l, r) ==
    IF r.status = TransportError
    THEN [l EXCEPT !.t = Len(l.terms) + 1, !.last_error = TRANSPORT_MSG]
    ELSE IF r.status # 200
    THEN [l EXCEPT !.t = Len(l.terms) + 1,
                   !.last_error = "API returned status " \o ToString(r.status)]
    ELSE [l EXCEPT !.t = @ + 1, !.any_success = TRUE,
                   !.anims = C_Merge(@, r.results, 1, l.limit)]

\* the body of the loop of search for one answer: a transport exception and
\* the TypeError of the SearchResult built for a 401 are caught and the loop
\* continues, like any status other than 200
C_OnSearch(l, r) ==
    IF r.status = TransportError
    THEN [l EXCEPT !.t = @ + 1, !.last_error = TRANSPORT_MSG]
    ELSE IF r.status = 401
    THEN [l EXCEPT !.t = @ + 1, !.last_error = SEARCHRESULT_TYPEERROR]
    ELSE IF r.status # 200
    THEN [l EXCEPT !.t = @ + 1,
                   !.last_error = "API returned status " \o ToString(r.status)]
    ELSE [l EXCEPT !.t = @ + 1, !.any_success = TRUE,
                   !.anims = C_Merge(@, r.results, 1, l.limit)]

\* one pass of the loop of search: one request for the next term
C_search_term ==
    /\ pc = "search" /\ loc.t >= 1
    /\ C_SearchAgain(loc)
    /\ reqs' = Issued("search")
    /\ \E r \in SearchResponses(Lean(args.keywords)) :
          /\ loc' = C_OnSearch(loc, r)
          /\ lastSearch' = SearchSeen(r.status, lastSearch.ok \/ r.status = 200,
                                      lastSearch.repeat \/ Repeats(loc.anims, r))
    /\ UNCHANGED <<op, args, pc, idx, results, job, lastPoll, lastExport, ret>>
    /\ session' = SessionAfter
    /\ UNCHANGED <<disk, cancelled>>

\* models.py SearchResult as search returns it
SearchResult(query, animations, limit) ==
    [query |-> query, total |-> Len(animations),
     animations |-> SubSeq(animations, 1, IF Len(animations) < limit
                                           THEN Len(animations) ELSE limit)]

\* search after its loop, and what download makes of the result
C_search_end ==
    /\ pc = "search" /\ loc.t >= 1
    /\ ~C_SearchAgain(loc)
    /\ IF ~loc.any_success /\ loc.anims = <<>>
       THEN /\ C_Propagate("TypeError", SEARCHRESULT_TYPEERROR)
            /\ loc' = loc
       ELSE IF op = "search"
       THEN /\ ret' = Return(SearchResult(loc.kw, loc.anims, loc.limit))
            /\ pc' = "done"
            /\ UNCHANGED <<results, loc>>
       ELSE IF loc.anims # <<>>
       THEN /\ loc' = [NoLoc EXCEPT !.kw = loc.kw,
                                    !.animation_id = loc.anims[1].id,
                                    !.animation_name = loc.anims[1].name]
            /\ pc' = "details"
            /\ UNCHANGED <<results, ret>>
       ELSE /\ C_Finish(DownloadResult(FALSE, loc.kw, "",
                                       "Animation not found: " \o loc.kw))
            /\ loc' = [NoLoc EXCEPT !.kw = loc.kw]
    /\ UNCHANGED <<op, args, idx, job, reqs, lastPoll, lastExport, lastSearch>>
    /\ session' = SessionAfter
    /\ UNCHANGED <<disk, cancelled>>

\* _get_animation_details inside the try of download: any failure becomes
\* the item's error
C_get_animation_details ==
    /\ pc = "details"
    /\ reqs' = Issued("details")
    /\ \E s \in DetailsStatuses(Lean(args.keywords)) :
          IF s = TransportError
          THEN C_Finish(DownloadResult(FALSE, loc.animation_name, "", TRANSPORT_MSG))
          ELSE IF s # 200
          THEN C_Finish(DownloadResult(FALSE, loc.animation_name, "",
                          "Failed to get animation details: " \o ToString(s)))
          ELSE /\ pc' = "export"
               /\ UNCHANGED <<results, ret>>
    /\ UNCHANGED <<op, args, idx, loc, job, lastPoll, lastExport, lastSearch>>
    /\ session' = SessionAfter
    /\ UNCHANGED <<disk, cancelled>>

\* the export request: only 200 and 202 are accepted
C_export ==
    /\ pc = "export"
    /\ reqs' = Issued("export")
    /\ \E s \in ExportStatuses(Lean(args.keywords)) :
          /\ lastExport' = s
          /\ lastSearch' = lastSearch
          /\ IF s = TransportError
             THEN C_Finish(DownloadResult(FALSE, loc.animation_name, "", TRANSPORT_MSG))
             ELSE IF s \notin {200, 202}
             THEN C_Finish(DownloadResult(FALSE, loc.animation_name, "",
                             "Export request failed: " \o ToString(s) \o " - "
                             \o RESPONSE_TEXT))
             ELSE /\ pc' = "poll"
                  /\ UNCHANGED <<results, ret>>
    /\ UNCHANGED <<op, args, idx, loc, job, lastPoll>>
    /\ session' = SessionAfter
    /\ UNCHANGED <<disk, cancelled>>

\* a polling loop that does not leave on a completed answer
C_OnPoll_NoBreak(r) ==
    IF r.status = TransportError THEN [do |-> "raise", value |-> TRANSPORT_MSG]
    ELSE IF r.status # 200 THEN [do |-> "continue", value |-> None]
    ELSE IF r.job = Malformed THEN [do |-> "raise", value |-> JSON_MSG]
    ELSE IF r.job = "failed"
    THEN [do |-> "failed", value |-> Get(r.message, CLIENT_JOB_FAILED_MSG)]
    ELSE [do |-> "continue", value |-> None]

\* what one monitor answer does to the polling loop of download:
\* "continue", "break" with the download URL, "failed" with the message,
\* "raise" for an exception the try of download catches
C_OnPoll(r) ==
    IF r.status = TransportError THEN [do |-> "raise", value |-> TRANSPORT_MSG]
    ELSE IF r.status # 200 THEN [do |-> "continue", value |-> None]
    ELSE IF r.job = Malformed THEN [do |-> "raise", value |-> JSON_MSG]
    ELSE IF r.job = "completed" THEN [do |-> "break", value |-> Get(r.job_result, "")]
    ELSE IF r.job = "failed"
    THEN [do |-> "failed", value |-> Get(r.message, CLIENT_JOB_FAILED_MSG)]
    ELSE [do |-> "continue", value |-> None]

\* whether the polling loop of download runs another pass
C_PollAgain(attempt) == attempt < ClientMaxAttempts

\* whether download goes on to the retrieval with this download URL
C_HasUrl(download_url) == Truthy(download_url)

\* one pass of the polling loop, and after a break the check of the URL
C_poll ==
    /\ pc = "poll"
    /\ C_PollAgain(loc.attempt)
    /\ reqs' = Issued("monitor")
    /\ \E r \in PollResponses(Lean(args.keywords)) :
          /\ lastPoll' = r
          /\ lastExport' = lastExport
          /\ lastSearch' = lastSearch
          /\ LET o == C_OnPoll(r)
                 l == [loc EXCEPT !.attempt = @ + 1]
             IN  IF o.do = "raise"
                 THEN /\ C_Finish(DownloadResult(FALSE, loc.animation_name, "", o.value))
                      /\ loc' = l
                 ELSE IF o.do = "failed"
                 THEN /\ C_Finish(DownloadResult(FALSE, loc.animation_name, "", o.value))
                      /\ loc' = l
                 ELSE IF o.do = "break"
                 THEN /\ loc' = [l EXCEPT !.download_url = o.value]
                      /\ IF C_HasUrl(o.value)
                         THEN pc' = "retrieve" /\ UNCHANGED <<results, ret>>
                         ELSE C_Finish(DownloadResult(FALSE, loc.animation_name, "",
                                                      CLIENT_TIMEOUT_MSG))
                 ELSE /\ loc' = l
                      /\ UNCHANGED <<pc, results, ret>>
    /\ UNCHANGED <<op, args, idx, job>>
    /\ session' = SessionAfter
    /\ UNCHANGED <<disk, cancelled>>

\* the polling loop ran out of attempts: no download URL
C_poll_exhausted ==
    /\ pc = "poll"
    /\ ~C_PollAgain(loc.attempt)
    /\ C_Finish(DownloadResult(FALSE, loc.animation_name, "", CLIENT_TIMEOUT_MSG))
    /\ UNCHANGED <<op, args, idx, loc, job, reqs, lastPoll, lastExport, lastSearch>>
    /\ session' = SessionAfter
    /\ UNCHANGED <<disk, cancelled>>

\* safe_name that leaves the spaces of the name in place
safe_name_KeepSpaces(file_name, animation_name) ==
    LET kept == KeepFrom(IF Truthy(file_name) THEN file_name ELSE animation_name, 1)
    IN  IF EndsWith(kept, ".fbx") THEN kept ELSE kept \o ".fbx"

\* safe_name that replaces no character of the name
safe_name_Raw(file_name, animation_name) ==
    LET chosen == IF Truthy(file_name) THEN file_name ELSE animation_name
    IN  IF EndsWith(chosen, ".fbx") THEN chosen ELSE chosen \o ".fbx"

\* MixamoClient.download: the name of the file it writes
safe_name(file_name, animation_name) ==
    LET chosen == IF Truthy(file_name) THEN file_name ELSE animation_name
        replaced == UnderscoreFrom(KeepFrom(chosen, 1), 1)
    IN  IF EndsWith(replaced, ".fbx") THEN replaced ELSE replaced \o ".fbx"

\* the directory the calls write to
OUTPUT_DIR == "out"

\* Path(output_dir) / name
PathJoin(dir, name) == dir \o "/" \o name

\* batch_download: the default character_name
CHARACTER_NAME == "Character"

\* the file_name download is called with: none by the caller of the model,
\* the character's name and the keyword by batch_download
C_file_name ==
    IF op = "batch_download"
    THEN CHARACTER_NAME \o "_" \o UnderscoreFrom(StrStrip(args.keywords[idx]), 1)
    ELSE None

\* the path of a file named as the animation is, unsanitized
C_file_path_Raw(animation_name) == PathJoin(OUTPUT_DIR, animation_name)

\* the path of the file download writes
C_file_path(animation_name) ==
    PathJoin(IF op = "batch_download" THEN PathJoin(OUTPUT_DIR, CHARACTER_NAME)
             ELSE OUTPUT_DIR,
             safe_name(C_file_name, animation_name))

\* the disk after the retrieval: the file is opened for writing once the
\* status is 200 and the directory exists, and the chunks are written into it
C_AfterWrite(o, path) ==
    IF o = "ok" THEN Written(path, TRUE)
    ELSE IF o = "write_error" THEN Written(path, FALSE)
    ELSE disk

\* the retrieval request and the write of the file, inside the try
C_retrieve ==
    /\ pc = "retrieve"
    /\ reqs' = Issued("retrieve")
    /\ \E o \in RetrievalOutcomes(Lean(args.keywords)) :
          /\ IF o = "ok"
             THEN C_Finish(DownloadResult(TRUE, loc.animation_name,
                             C_file_path(loc.animation_name), ""))
             ELSE IF o = "status404"
             THEN C_Finish(DownloadResult(FALSE, loc.animation_name, "",
                             "Download failed: 404"))
             ELSE IF o = "status500"
             THEN C_Finish(DownloadResult(FALSE, loc.animation_name, "",
                             "Download failed: 500"))
             ELSE IF o = "transport_error"
             THEN C_Finish(DownloadResult(FALSE, loc.animation_name, "", TRANSPORT_MSG))
             ELSE C_Finish(DownloadResult(FALSE, loc.animation_name, "", o))
          /\ disk' = C_AfterWrite(o, C_file_path(loc.animation_name))
    /\ UNCHANGED <<op, args, idx, loc, job, lastPoll, lastExport, lastSearch>>
    /\ session' = SessionAfter
    /\ cancelled' = cancelled

\* a summary that counts every record as failed
BatchDownloadResult_AllFailed(rs) ==
    LET successful == Cardinality({i \in 1..Len(rs) : rs[i].success})
    IN  [total |-> Len(rs), successful |-> successful, failed |-> Len(rs),
         results |-> rs]

\* batch_download counts its records
BatchDownloadResult(rs) ==
    LET successful == Cardinality({i \in 1..Len(rs) : rs[i].success})
    IN  [total |-> Len(rs), successful |-> successful, failed |-> Len(rs) - successful,
         results |-> rs]

\* batch_download after an item: the pacing sleep, then the next keyword or
\* the summary
C_pace ==
    /\ pc = "pace"
    /\ IF idx < Len(args.keywords)
       THEN /\ idx' = idx + 1
            /\ pc' = "download"
            /\ loc' = NoLoc
            /\ reqs' = NoRequests
            /\ lastPoll' = NoPoll
            /\ lastExport' = NoExport
            /\ lastSearch' = NoSearch
            /\ ret' = ret
       ELSE /\ ret' = Return(BatchDownloadResult(results))
            /\ pc' = "done"
            /\ UNCHANGED <<idx, loc, reqs, lastPoll, lastExport, lastSearch>>
    /\ UNCHANGED <<op, args, results, job>>
    /\ session' = SessionAfter
    /\ UNCHANGED <<disk, cancelled>>

ClientNext ==
    \/ C_batch_download
    \/ C_download
    \/ C_get_primary_character_id
    \/ C_resolve
    \/ C_search
    \/ C_search_term
    \/ C_search_end
    \/ C_get_animation_details
    \/ C_export
    \/ C_poll
    \/ C_poll_exhausted
    \/ C_retrieve
    \/ C_pace

(***************************************************************************)
(* MixamoService (services/mixamo_service.py) behind manage_mixamo         *)
(* (services/manage_mixamo.py).                                            *)
(***************************************************************************)
\* mixamo_service.py _monitor_export as upload_character calls it
UploadMaxAttempts == 120

NoExc == [class |-> None, message |-> None]
Exc(cls, msg) == [class |-> cls, message |-> msg]

\* the exception classes derived from MixamoError
IsMixamoError(cls) ==
    cls \in {"MixamoError", "AuthenticationError", "AnimationNotFoundError",
             "DownloadError", "CharacterError"}

\* _request: the exception raised for a response status, or none
S_request(status, endpoint) ==
    IF status = TransportError THEN Exc("MixamoError", "Network error: " \o TRANSPORT_MSG)
    ELSE IF status = 401 THEN Exc("AuthenticationError", SERVICE_AUTH_MSG)
    ELSE IF status = 404 THEN Exc("MixamoError", "Resource not found: " \o endpoint)
    ELSE IF status = 429 THEN Exc("MixamoError", SERVICE_RATE_MSG)
    ELSE IF status >= 400
    THEN Exc("MixamoError", "API error " \o ToString(status) \o ": " \o RESPONSE_TEXT)
    ELSE NoExc

\* a dictionary that reports the error as a success
Failure_Success(error) == [success |-> TRUE, error |-> error]

\* the dictionaries manage_mixamo returns
Failure(error) == [success |-> FALSE, error |-> error]

\* one entry of the list fetch_animations_for_character returns
FetchResult(query, status, animation_name, file_path, error) ==
    [query |-> query, status |-> status, animation_name |-> animation_name,
     file_path |-> file_path, error |-> error]

\* handle_fetch summarises the list
FetchSummary(animations, rs) ==
    LET completed == Cardinality({i \in 1..Len(rs) : rs[i].status = "completed"})
        failed == Cardinality({i \in 1..Len(rs) : rs[i].status # "completed"})
    IN  [success |-> completed > 0,
         summary |-> [requested |-> Len(animations), completed |-> completed,
                      failed |-> failed],
         animations |-> rs]

\* search_animations up to its loop: the first terms of the expansion
S_SearchLocals(query, limit) ==
    LET search_terms == expand_search_keywords(query)
    IN  [NoLoc EXCEPT !.kw = query, !.t = 1, !.limit = limit,
                      !.terms = SubSeq(search_terms, 1,
                                       IF Len(search_terms) < ServiceMaxTerms
                                       THEN Len(search_terms) ELSE ServiceMaxTerms)]

\* handle_fetch once the character is known: the output directory is made
\* and the loop over the queries starts
S_StartFetch ==
    \E makedirs_ok \in BOOLEAN :
       IF makedirs_ok
       THEN /\ idx' = 1
            /\ pc' = "s_item"
            /\ ret' = ret
       ELSE /\ idx' = idx
            /\ pc' = "done"
            /\ ret' = Raise("OSError", "makedirs")

\* manage_mixamo up to the first request of its operation
S_manage_mixamo ==
    /\ pc = "manage_mixamo"
    /\ LET Done(v) == /\ ret' = Return(v) /\ pc' = "done" /\ UNCHANGED <<idx, loc>>
       IN  IF args.operation = "list_keywords"
           THEN Done([success |-> TRUE, error |-> None])
           ELSE IF ~args.token THEN Done(Failure(TOKEN_REQUIRED_MSG))
           ELSE IF args.operation = "search"
           THEN IF ~Truthy(args.query)
                THEN Done(Failure("Query required for search operation"))
                ELSE /\ loc' = S_SearchLocals(args.query, HandleSearchLimit)
                     /\ pc' = "s_search"
                     /\ UNCHANGED <<idx, ret>>
           ELSE IF args.operation = "fetch"
           THEN IF args.keywords = <<>>
                THEN Done(Failure("Animations list required for fetch operation"))
                ELSE IF ~args.output_dir
                THEN Done(Failure("Output directory required for fetch operation"))
                ELSE IF ~args.character_id
                THEN /\ pc' = "s_primary" /\ UNCHANGED <<idx, loc, ret>>
                ELSE /\ S_StartFetch /\ loc' = loc
           ELSE IF args.operation = "upload"
           THEN IF ~args.character_path
                THEN Done(Failure("Character path required for upload operation"))
                ELSE /\ pc' = "s_upload" /\ UNCHANGED <<idx, loc, ret>>
           ELSE IF args.operation = "configure"
           THEN Done([success |-> TRUE, error |-> None])
           ELSE Done([success |-> FALSE,
                      error |-> "Unknown operation: " \o args.operation,
                      available_operations |-> TRUE])
    /\ UNCHANGED <<op, args, results, job, reqs, lastPoll, lastExport, lastSearch>>
    /\ session' = SessionAfter
    /\ UNCHANGED <<disk, cancelled>>

\* get_primary_character: the exception it raises, or none; every
\* MixamoError of its try, the AuthenticationError of _request and its own
\* CharacterError included, is raised again as a CharacterError
get_primary_character(status, has_primary) ==
    LET e == S_request(status, "/characters/primary")
    IN  IF e.class # None
        THEN Exc("CharacterError", "Failed to get primary character: " \o e.message)
        ELSE IF ~has_primary
        THEN Exc("CharacterError", "Failed to get primary character: "
                                   \o "No primary character selected in Mixamo.")
        ELSE NoExc

\* get_primary_character called by itself, or by handle_fetch when it has no
\* character id: handle_fetch turns the MixamoError into a failure
S_get_primary_character ==
    /\ pc \in {"s_primary", "get_primary_character"}
    /\ reqs' = Issued("characters")
    /\ \E s \in {TransportError, 200, 401, 500}, has_primary \in BOOLEAN :
          LET e == get_primary_character(s, has_primary)
          IN  IF op = "get_primary_character"
              THEN /\ ret' = IF e.class # None THEN Raise(e.class, e.message)
                             ELSE Return([id |-> "char-1", name |-> "Y Bot"])
                   /\ pc' = "done"
                   /\ idx' = idx
              ELSE IF e.class # None
              THEN /\ ret' = Return(Failure(e.message))
                   /\ pc' = "done"
                   /\ idx' = idx
              ELSE S_StartFetch
    /\ UNCHANGED <<op, args, results, loc, job, lastPoll, lastExport, lastSearch>>
    /\ session' = SessionAfter
    /\ UNCHANGED <<disk, cancelled>>

\* fetch_animations_for_character: the top of the loop body
S_item ==
    /\ pc = "s_item"
    /\ loc' = S_SearchLocals(args.keywords[idx], 1)
    /\ pc' = "s_search"
    /\ UNCHANGED <<op, args, idx, results, job, reqs, lastPoll, lastExport, lastSearch, ret>>
    /\ session' = SessionAfter
    /\ UNCHANGED <<disk, cancelled>>

\* an inner loop that appends every item
RECURSIVE S_Merge_NoCheck(_, _, _)
S_Merge_NoCheck(anims, items, i) ==
    IF i > Len(items) THEN anims
    ELSE S_Merge_NoCheck(Append(anims, items[i]), items, i + 1)

\* the inner loop of search_animations: every item whose id is not yet in
\* results is appended
RECURSIVE S_Merge(_, _, _)
S_Merge(anims, items, i) ==
    IF i > Len(items) THEN anims
    ELSE S_Merge(IF \E j \in 1..Len(anims) : anims[j].id = items[i].id
                 THEN anims ELSE Append(anims, items[i]),
                 items, i + 1)

\* whether the loop of search_animations runs another pass: a term is left
S_SearchAgain(l) == l.t <= Len(l.terms)

\* the body of the loop of search_animations for one answer: a MixamoError,
\* AuthenticationError included, skips the term
S_OnSearch(l, r) ==
    IF S_request(r.status, "/products").class # None
    THEN [l EXCEPT !.t = @ + 1]
    ELSE [l EXCEPT !.t = @ + 1, !.anims = S_Merge(@, r.results, 1)]

\* one pass of the loop of search_animations
S_search_term ==
    /\ pc = "s_search"
    /\ S_SearchAgain(loc)
    /\ reqs' = Issued("search")
    /\ \E r \in SearchResponses(Lean(args.keywords)) :
          /\ loc' = S_OnSearch(loc, r)
          /\ lastSearch' = SearchSeen(r.status, lastSearch.ok \/ r.status = 200,
                                      lastSearch.repeat \/ Repeats(loc.anims, r))
    /\ UNCHANGED <<op, args, pc, idx, results, job, lastPoll, lastExport, ret>>
    /\ session' = SessionAfter
    /\ UNCHANGED <<disk, cancelled>>

\* fetch_animations_for_character appends the item's result: before the
\* pacing sleep, or on a continue statement that skips it
\* the loop moves on without appending the record of the item
S_Finish_Unrecorded(rec, paced) ==
    /\ results' = results
    /\ pc' = IF paced THEN "s_pace" ELSE "s_continue"
    /\ ret' = ret

S_Finish(rec, paced) ==
    /\ results' = Append(results, rec)
    /\ pc' = IF paced THEN "s_pace" ELSE "s_continue"
    /\ ret' = ret

\* an exception that is no MixamoError leaves fetch_animations_for_character,
\* handle_fetch and manage_mixamo
S_Propagate(cls, msg) ==
    /\ ret' = Raise(cls, msg)
    /\ pc' = "done"
    /\ results' = results

\* search_animations after its loop, and what its caller makes of it
S_search_end ==
    /\ pc = "s_search"
    /\ ~S_SearchAgain(loc)
    /\ IF args.operation = "search"
       THEN /\ ret' = Return(IF loc.anims = <<>>
                             THEN Failure("No animations found for '" \o loc.kw \o "'")
                             ELSE [success |-> TRUE, error |-> None,
                                   count |-> Len(loc.anims), animations |-> loc.anims])
            /\ pc' = "done"
            /\ UNCHANGED <<results, loc>>
       ELSE IF loc.anims = <<>>
       THEN /\ S_Finish(FetchResult(loc.kw, "error", None, None,
                                    "No animations found for query: " \o loc.kw), TRUE)
            /\ loc' = [NoLoc EXCEPT !.kw = loc.kw]
       ELSE /\ loc' = [NoLoc EXCEPT !.kw = loc.kw,
                                    !.animation_id = loc.anims[1].id,
                                    !.animation_name = loc.anims[1].description]
            /\ pc' = "s_details"
            /\ UNCHANGED <<results, ret>>
    /\ UNCHANGED <<op, args, idx, job, reqs, lastPoll, lastExport, lastSearch>>
    /\ session' = SessionAfter
    /\ UNCHANGED <<disk, cancelled>>

\* export_animation: get_animation_details, outside the try of
\* export_animation and inside the try of fetch_animations_for_character
S_get_animation_details ==
    /\ pc = "s_details"
    /\ reqs' = Issued("details")
    /\ \E s \in DetailsStatuses(Lean(args.keywords)) :
          LET e == S_request(s, "/products/" \o loc.animation_id)
          IN  IF e.class # None
              THEN /\ S_Finish(FetchResult(loc.kw, "error", loc.animation_name, None,
                                           e.message), TRUE)
                   /\ job' = job
              ELSE /\ job' = DownloadJob("processing", None, None)
                   /\ pc' = "s_export"
                   /\ UNCHANGED <<results, ret>>
    /\ UNCHANGED <<op, args, idx, loc, lastPoll, lastExport, lastSearch>>
    /\ session' = SessionAfter
    /\ UNCHANGED <<disk, cancelled>>

\* a guard that looks at the status of the job only
S_CanDownload_StatusOnly(j) == j.status = "completed"

\* download_animation refuses a job that is not completed or has no URL
S_CanDownload(j) == j.status = "completed" /\ Truthy(j.download_url)

\* export_animation has returned its job (or _monitor_export has, to
\* upload_character): what the caller does with it before its next request
S_AfterExport(j) ==
    IF args.operation = "upload"
    THEN /\ ret' = Return(IF j.status # "completed"
                          THEN Failure("Character rigging failed: " \o j.error_message)
                          ELSE [success |-> TRUE, error |-> None])
         /\ pc' = "done"
         /\ results' = results
    ELSE IF j.status # "completed"
    THEN S_Finish(FetchResult(loc.kw, "export_failed", loc.animation_name, None,
                              j.error_message), FALSE)
    ELSE IF ~S_CanDownload(j)
    THEN S_Finish(FetchResult(loc.kw, "error", loc.animation_name, None,
                              "Cannot download: job status is " \o j.status
                              \o ", error: None"), TRUE)
    ELSE \E mkdir_ok \in IF Lean(args.keywords) THEN {TRUE} ELSE BOOLEAN :
            IF mkdir_ok
            THEN pc' = "s_retrieve" /\ UNCHANGED <<results, ret>>
            ELSE S_Propagate("OSError", "mkdir")

\* export_animation: the export request; a MixamoError fails the job
S_export ==
    /\ pc = "s_export"
    /\ reqs' = Issued("export")
    /\ \E s \in ExportStatuses(Lean(args.keywords)) :
          LET e == S_request(s, "/animations/export")
          IN  /\ lastExport' = s
              /\ lastSearch' = lastSearch
              /\ IF e.class # None
                 THEN /\ job' = [job EXCEPT !.status = "failed",
                                            !.error_message = e.message]
                      /\ S_AfterExport(job')
                 ELSE /\ pc' = "s_poll"
                      /\ UNCHANGED <<job, results, ret>>
    /\ UNCHANGED <<op, args, idx, loc, lastPoll>>
    /\ session' = SessionAfter
    /\ UNCHANGED <<disk, cancelled>>

\* the attempts _monitor_export is called with
S_MaxAttempts ==
    IF args.operation = "upload" THEN UploadMaxAttempts ELSE ServiceMaxAttempts

\* whether the loop of _monitor_export runs another pass
S_PollAgain(attempt) == attempt < S_MaxAttempts

\* a monitor that drops the message of a failed job for its default
S_OnPoll_DefaultMessage(j, r) ==
    LET e == S_request(r.status, "/characters/monitor")
    IN  IF e.class # None
        THEN [do |-> "return",
              job |-> [j EXCEPT !.status = "failed", !.error_message = e.message]]
        ELSE IF r.job = Malformed THEN [do |-> "raise", job |-> j]
        ELSE IF r.job = "completed"
        THEN [do |-> "return",
              job |-> [j EXCEPT !.status = "completed",
                                !.download_url = Get(r.job_result, None)]]
        ELSE IF r.job = "failed"
        THEN [do |-> "return",
              job |-> [j EXCEPT !.status = "failed",
                                !.error_message = SERVICE_JOB_FAILED_MSG]]
        ELSE [do |-> "continue", job |-> j]

\* what one monitor answer does to the job in _monitor_export: the job is
\* returned ("return"), the loop sleeps and goes on ("continue"), or the
\* error of response.json(), which is no MixamoError, leaves it ("raise")
S_OnPoll(j, r) ==
    LET e == S_request(r.status, "/characters/monitor")
    IN  IF e.class # None
        THEN [do |-> "return",
              job |-> [j EXCEPT !.status = "failed", !.error_message = e.message]]
        ELSE IF r.job = Malformed THEN [do |-> "raise", job |-> j]
        ELSE IF r.job = "completed"
        THEN [do |-> "return",
              job |-> [j EXCEPT !.status = "completed",
                                !.download_url = Get(r.job_result, None)]]
        ELSE IF r.job = "failed"
        THEN [do |-> "return",
              job |-> [j EXCEPT !.status = "failed",
                                !.error_message = Get(r.message, SERVICE_JOB_FAILED_MSG)]]
        ELSE [do |-> "continue", job |-> j]

\* one pass of the loop of _monitor_export
S_monitor_export ==
    /\ pc = "s_poll"
    /\ S_PollAgain(loc.attempt)
    /\ reqs' = Issued("monitor")
    /\ loc' = [loc EXCEPT !.attempt = @ + 1]
    /\ \E r \in PollResponses(Lean(args.keywords)) :
          /\ lastPoll' = r
          /\ lastExport' = lastExport
          /\ lastSearch' = lastSearch
          /\ LET o == S_OnPoll(job, r)
             IN  /\ job' = o.job
                 /\ IF o.do = "return" THEN S_AfterExport(o.job)
                    ELSE IF o.do = "raise" THEN S_Propagate("JSONDecodeError", JSON_MSG)
                    ELSE UNCHANGED <<pc, results, ret>>
    /\ UNCHANGED <<op, args, idx>>
    /\ session' = SessionAfter
    /\ UNCHANGED <<disk, cancelled>>

\* a time-out that puts the job back to pending
S_TimedOut_Pending(j) == [j EXCEPT !.status = "pending", !.error_message = SERVICE_TIMEOUT_MSG]

\* the job _monitor_export returns when its attempts are used up
S_TimedOut(j) == [j EXCEPT !.status = "failed", !.error_message = SERVICE_TIMEOUT_MSG]

\* _monitor_export after its loop
S_monitor_exhausted ==
    /\ pc = "s_poll"
    /\ ~S_PollAgain(loc.attempt)
    /\ job' = S_TimedOut(job)
    /\ S_AfterExport(job')
    /\ UNCHANGED <<op, args, idx, loc, reqs, lastPoll, lastExport, lastSearch>>
    /\ session' = SessionAfter
    /\ UNCHANGED <<disk, cancelled>>

\* MixamoService.download_animation: the path of the file it writes
S_file_path(animation_name) == PathJoin(OUTPUT_DIR, KeepFrom(animation_name, 1) \o ".fbx")

\* the disk after download_animation: write_bytes opens the file and writes
\* the content into it
S_AfterWrite(o, path) ==
    IF o = "ok" THEN Written(path, TRUE)
    ELSE IF o = "write_error" THEN Written(path, FALSE)
    ELSE disk

\* download_animation: the retrieval request, raise_for_status, the write
S_download_animation ==
    /\ pc = "s_retrieve"
    /\ reqs' = Issued("retrieve")
    /\ \E o \in RetrievalOutcomes(Lean(args.keywords)) \ {"mkdir_error"} :
          /\ IF o = "ok"
             THEN S_Finish(FetchResult(loc.kw, "completed", loc.animation_name,
                                       S_file_path(loc.animation_name), None), TRUE)
             ELSE IF o = "transport_error"
             THEN S_Finish(FetchResult(loc.kw, "error", loc.animation_name, None,
                                       "Failed to download animation: "
                                       \o TRANSPORT_MSG),
                           TRUE)
             ELSE IF o = "write_error"
             THEN S_Propagate("OSError", "write_bytes")
             ELSE S_Propagate("HTTPStatusError", o)
          /\ disk' = S_AfterWrite(o, S_file_path(loc.animation_name))
    /\ UNCHANGED <<op, args, idx, loc, job, lastPoll, lastExport, lastSearch>>
    /\ session' = SessionAfter
    /\ cancelled' = cancelled

\* the loop of fetch_animations_for_character moves on: the next query, or
\* the list is returned and handle_fetch summarises it
S_Advance ==
    IF idx < Len(args.keywords)
    THEN /\ idx' = idx + 1
         /\ pc' = "s_item"
         /\ loc' = NoLoc
         /\ job' = NoJob
         /\ reqs' = NoRequests
         /\ lastPoll' = NoPoll
         /\ lastExport' = NoExport
         /\ lastSearch' = NoSearch
         /\ ret' = ret
    ELSE /\ ret' = Return(FetchSummary(args.keywords, results))
         /\ pc' = "done"
         /\ UNCHANGED <<idx, loc, job, reqs, lastPoll, lastExport, lastSearch>>

\* the pacing sleep at the end of the loop body
S_pace ==
    /\ pc = "s_pace"
    /\ S_Advance
    /\ UNCHANGED <<op, args, results>>
    /\ session' = SessionAfter
    /\ UNCHANGED <<disk, cancelled>>

\* a continue statement: the loop body ends without the pacing sleep
S_continue ==
    /\ pc = "s_continue"
    /\ S_Advance
    /\ UNCHANGED <<op, args, results>>
    /\ session' = SessionAfter
    /\ UNCHANGED <<disk, cancelled>>

\* handle_upload: upload_character up to its polling
S_upload_character ==
    /\ pc = "s_upload"
    /\ \E exists \in BOOLEAN, s \in {TransportError, 200, 500}, uuid \in BOOLEAN :
          LET Fail(msg) == /\ ret' = Return(Failure(msg)) /\ pc' = "done"
                           /\ UNCHANGED <<job>>
          IN  IF ~exists
              THEN Fail("File not found") /\ reqs' = reqs
              ELSE /\ reqs' = Issued("upload")
                   /\ IF s = TransportError THEN Fail("Upload failed: " \o TRANSPORT_MSG)
                      ELSE IF s >= 400
                      THEN Fail("Upload failed with status " \o ToString(s) \o ": "
                                \o RESPONSE_TEXT)
                      ELSE IF ~uuid THEN Fail("No character UUID returned from upload")
                      ELSE /\ job' = DownloadJob("processing", None, None)
                           /\ pc' = "s_poll"
                           /\ ret' = ret
    /\ UNCHANGED <<op, args, idx, results, loc, lastPoll, lastExport, lastSearch>>
    /\ session' = SessionAfter
    /\ UNCHANGED <<disk, cancelled>>

ServiceNext ==
    \/ S_manage_mixamo
    \/ S_get_primary_character
    \/ S_item
    \/ S_search_term
    \/ S_search_end
    \/ S_get_animation_details
    \/ S_export
    \/ S_monitor_export
    \/ S_monitor_exhausted
    \/ S_download_animation
    \/ S_pace
    \/ S_continue
    \/ S_upload_character

(***************************************************************************)
(* Cancellation of the task that runs a call, and the server's shutdown.   *)
(***************************************************************************)
\* a cancellation that the call records as a timed-out item and survives
CancelledAt_Swallowed(awaiting) ==
    /\ reqs' = IF awaiting = "request" THEN Issued("monitor") ELSE reqs
    /\ IF pc = "poll"
       THEN C_Finish(DownloadResult(FALSE, loc.animation_name, "", CLIENT_TIMEOUT_MSG))
       ELSE S_AfterExport(S_TimedOut(job))

\* asyncio raises CancelledError at the await the task is suspended in: the
\* sleep between two polls, or the monitor request whose response is then
\* dropped.  CancelledError is a BaseException: neither except Exception in
\* download nor except MixamoError in _monitor_export and
\* fetch_animations_for_character catches it, and manage_mixamo has no except
CancelledAt(awaiting) ==
    /\ reqs' = IF awaiting = "request" THEN Issued("monitor") ELSE reqs
    /\ ret' = Raise("CancelledError", "")
    /\ pc' = "done"
    /\ results' = results

\* the awaits of the polling loop: download sleeps before each request,
\* _monitor_export after each, so its first pass has no sleep before it
PollingAwaits ==
    IF pc = "s_poll" /\ loc.attempt = 0 THEN {"request"} ELSE {"sleep", "request"}

\* the caller cancels the task while it is in the polling loop
Cancel ==
    /\ pc \in {"poll", "s_poll"}
    /\ ~cancelled
    /\ IF pc = "poll" THEN C_PollAgain(loc.attempt) ELSE S_PollAgain(loc.attempt)
    /\ \E awaiting \in PollingAwaits : CancelledAt(awaiting)
    /\ cancelled' = TRUE
    /\ session' = SessionAfter
    /\ UNCHANGED <<op, args, idx, loc, job, lastPoll, lastExport, lastSearch, disk>>

\* run_server's finally clause: the server closes its MixamoClient
C_close ==
    /\ op \in {"search", "download", "batch_download"}
    /\ pc = "done"
    /\ session.open
    /\ session' = close(session)
    /\ UNCHANGED <<op, args, pc, idx, results, loc, job, reqs, lastPoll, lastExport,
                   lastSearch, ret, disk, cancelled>>

Next == ClientNext \/ ServiceNext \/ Cancel \/ C_close

Spec == Init /\ [][Next]_vars

(***************************************************************************)
(* What the properties below look at.                                      *)
(***************************************************************************)
\* the call is MixamoClient's
IsClient == op \in {"search", "download", "batch_download"}

\* the call is manage_mixamo's fetch, i.e. fetch_animations_for_character
IsFetch == op = "manage_mixamo" /\ args.operation = "fetch"

\* the call is a batch whose loop over the keywords was entered
InBatch == (op = "batch_download" \/ IsFetch) /\ idx >= 1

(***************************************************************************)
(* Batch processing.                                                       *)
(***************************************************************************)
\* C1: whatever the items meet, a batch never aborts: once it is over it has
\* returned, with exactly one record per input keyword, in input order.
C1_BatchNeverAborts ==
    (InBatch /\ pc = "done") =>
        /\ ret.kind = "return"
        /\ Len(results) = Len(args.keywords)
        /\ IsFetch => \A i \in 1..Len(results) : results[i].query = args.keywords[i]

\* C2: the summary a batch returns has total = the number of input keywords,
\* successful = the number of records marked successful, and
\* successful + failed = total.
C2_SummaryCounts ==
    ((op = "batch_download" \/ InBatch) /\ pc = "done" /\ ret.kind = "return") =>
        IF op = "batch_download"
        THEN LET v == ret.value
                 ok == {i \in 1..Len(v.results) : v.results[i].success}
             IN  /\ v.total = Len(args.keywords)
                 /\ v.successful = Cardinality(ok)
                 /\ v.successful + v.failed = v.total
        ELSE LET v == ret.value.summary
                 rs == ret.value.animations
                 ok == {i \in 1..Len(rs) : rs[i].status = "completed"}
             IN  /\ v.requested = Len(args.keywords)
                 /\ v.completed = Cardinality(ok)
                 /\ v.completed + v.failed = v.requested

\* three keywords, the export job of the second one reported failed by the
\* server: total 3, successful 2, failed 1
C2_Witness ==
    /\ op = "batch_download" /\ pc = "done" /\ ret.kind = "return"
    /\ Len(args.keywords) = 3
    /\ Len(results) = 3
    /\ results[1].success /\ results[3].success
    /\ ~results[2].success /\ results[2].error = SERVER_MSG
    /\ ret.value.total = 3 /\ ret.value.successful = 2 /\ ret.value.failed = 1
    /\ ret.value.results = results

(***************************************************************************)
(* Export monitoring and retrieval.                                        *)
(***************************************************************************)
\* the monitor answer reports the job completed / failed
PollCompleted(r) == r.status = 200 /\ r.job = "completed"
PollFailed(r) == r.status = 200 /\ r.job = "failed"

\* the retrieval of the item in progress has been started or is about to be
AtRetrieval == pc \in {"retrieve", "s_retrieve"} \/ reqs.retrieve > 0

\* C3: the retrieval request of an item is issued only after a monitor poll
\* of that item answered completed with a non-empty download reference, and
\* it is that reference the retrieval is given; a job that is processing,
\* failed, timed out or completed without a job_result never gets there.
C3_RetrievalOnlyWhenCompleted ==
    AtRetrieval =>
        /\ PollCompleted(lastPoll)
        /\ lastPoll.job_result \notin {Absent, None, ""}
        /\ IF IsClient
           THEN loc.download_url = lastPoll.job_result
           ELSE job.status = "completed" /\ job.download_url = lastPoll.job_result

\* the service has issued the retrieval request of a completed job
C3_Witness ==
    /\ IsFetch /\ reqs.retrieve = 1 /\ reqs.monitor = 2
    /\ job.status = "completed" /\ job.download_url = URL2
    /\ lastPoll = PollResponse(200, "completed", URL2, Absent)

\* the polling of the item in progress is over
PollingOver == pc \notin {"export", "poll", "s_export", "s_poll"}

\* the record of the item in progress, once the item is over
ItemRecord == IF op = "batch_download" \/ IsFetch THEN results[idx] ELSE ret.value

\* the attempt ceiling of the polling loop in progress
Ceiling == IF IsClient THEN ClientMaxAttempts ELSE S_MaxAttempts

\* every attempt up to the ceiling was used and answered, and the last
\* answer was still not terminal
TimedOut ==
    /\ PollingOver
    /\ ~cancelled
    /\ reqs.monitor = Ceiling
    /\ lastPoll.status = 200 /\ lastPoll.job \notin {"completed", "failed", Malformed}

\* C4: a job whose every poll up to the attempt ceiling answered a
\* non-terminal status ends timed out, an outcome that is not the failed
\* outcome of a job the server reported failed.
C4_TimedOutIsNotFailed ==
    TimedOut =>
        IF IsClient
        THEN /\ ItemRecord.error = CLIENT_TIMEOUT_MSG
             /\ ItemRecord.error # CLIENT_JOB_FAILED_MSG
        ELSE job.status # "failed"

\* the monitor answered with a status other than 200, or the request failed
\* at the transport layer
PollTransient(r) == r # NoPoll /\ r.status # 200

\* C5: a monitor poll that answers a non-success status or fails at the
\* transport layer does not end the job: polling goes on with the next
\* tick, unless that poll was the last attempt under the ceiling.
C5_TransientPollIsRetried ==
    ((IsClient \/ IsFetch) /\ PollTransient(lastPoll)) =>
        (pc \in {"poll", "s_poll"} \/ reqs.monitor = Ceiling)

\* the monitor answer carries a terminal status
PollTerminal(r) == PollCompleted(r) \/ PollFailed(r)

\* one step of the program, seen from the polling loop: no monitor request
\* after a terminal answer, and a completed answer ends the loop with the
\* job_result of that very answer as the download reference
C6_Step ==
    /\ PollTerminal(lastPoll) => reqs'.monitor <= reqs.monitor
    /\ (reqs'.monitor = reqs.monitor + 1 /\ PollCompleted(lastPoll')) =>
          /\ pc' \notin {"poll", "s_poll"}
          /\ IF IsClient
             THEN loc'.download_url =
                     IF lastPoll'.job_result = Absent THEN "" ELSE lastPoll'.job_result
             ELSE /\ job'.status = "completed"
                  /\ job'.download_url =
                        IF lastPoll'.job_result = Absent THEN None
                        ELSE lastPoll'.job_result

\* C6: the job completes at the first poll that answers completed, its
\* download reference is the job_result of exactly that poll, and no monitor
\* poll is issued once a terminal status has been observed.
C6_CompletesAtFirstCompleted == [][C6_Step]_vars

\* processing, processing, completed: the third poll completed the job and
\* its reference is the one the retrieval will use
C6_Witness ==
    /\ op = "download" /\ pc = "retrieve"
    /\ reqs.monitor = 3 /\ loc.attempt = 3
    /\ lastPoll = PollResponse(200, "completed", URL2, Absent)
    /\ loc.download_url = URL2

\* C7: a monitor poll that answers failed ends the export at once, with no
\* further poll and no retrieval, and the error recorded for the item is the
\* message of the server, verbatim, or a fixed default when it sent none.
C7_FailedPollEndsExport ==
    ((IsClient \/ IsFetch) /\ PollFailed(lastPoll)) =>
        /\ PollingOver
        /\ ~AtRetrieval
        /\ IF IsClient THEN ~ItemRecord.success ELSE ItemRecord.status = "export_failed"
        /\ ItemRecord.error =
              IF lastPoll.message # Absent THEN lastPoll.message
              ELSE IF IsClient THEN CLIENT_JOB_FAILED_MSG ELSE SERVICE_JOB_FAILED_MSG

\* the second poll of an item of fetch answered failed with a message, which
\* is the error of the item's record
C7_Witness ==
    /\ IsFetch /\ Len(results) = idx /\ idx >= 1
    /\ reqs.monitor = 2 /\ reqs.retrieve = 0
    /\ lastPoll = PollResponse(200, "failed", Absent, SERVER_MSG)
    /\ results[idx].status = "export_failed"
    /\ results[idx].error = SERVER_MSG

\* C8: once the export is submitted, polling terminates: no more monitor
\* requests than the attempt ceiling are issued, and when the polling is
\* over the export has returned in a terminal outcome (completed, failed or
\* timed out), never pending or processing, whatever the remote answered.
C8_PollingTerminates ==
    /\ reqs.monitor <= Ceiling
    /\ ((IsClient \/ IsFetch) /\ reqs.monitor > 0 /\ PollingOver) =>
          IF IsClient
          THEN /\ ret.kind # "raise"
               /\ AtRetrieval \/ ~ItemRecord.success
          ELSE job.status \in {"completed", "failed"}

(***************************************************************************)
(* Export submission.                                                      *)
(***************************************************************************)
\* the export request was answered with a status that is none of the two
\* accepted codes
ExportRejected == lastExport \notin {NoExport, TransportError, 200, 202}

\* C9: an export submission answered with a status other than 200 and 202
\* makes the item failed, with the status code in the recorded error; the
\* export request was issued once, and no monitor poll and no retrieval
\* request is issued for the item.
C9_RejectedExportFailsItem ==
    ((IsClient \/ IsFetch) /\ ExportRejected) =>
        /\ PollingOver
        /\ reqs.export = 1 /\ reqs.monitor = 0 /\ reqs.retrieve = 0
        /\ IF IsClient THEN ~ItemRecord.success ELSE ItemRecord.status = "export_failed"
        /\ IsSubstr(ToString(lastExport), ItemRecord.error)

(***************************************************************************)
(* Authentication.                                                         *)
(***************************************************************************)
\* C10: without a credential no remote request is ever issued: search and
\* download of MixamoClient return their "not authenticated" result, and
\* manage_mixamo returns success = false with the token error for every
\* operation but list_keywords, which succeeds.
C10_NoCredentialNoRequest ==
    ~args.token =>
        /\ TotalRequests = 0
        /\ pc = "done" =>
              IF op \in {"search", "download"}
              THEN ret.kind = "return" /\ ret.value.error = NOT_AUTH_MSG
              ELSE IF op = "manage_mixamo"
              THEN /\ ret.kind = "return"
                   /\ IF args.operation = "list_keywords" THEN ret.value.success
                      ELSE ~ret.value.success /\ ret.value.error = TOKEN_REQUIRED_MSG
              ELSE TRUE

(***************************************************************************)
(* Search.                                                                 *)
(***************************************************************************)
\* the search of the item in progress will issue a request for a further term
SearchGoesOn ==
    \/ pc = "search" /\ loc.t >= 1 /\ C_SearchAgain(loc)
    \/ pc = "s_search" /\ S_SearchAgain(loc)

\* the item in progress is over: its record is written or the call has ended
ItemOver == pc \in {"pace", "s_pace", "s_continue", "done"}

\* the caller of the search was given an authentication error
AuthOutcome ==
    /\ ret.kind # "raise"
    /\ IF op = "search" THEN ret.value.error = AUTH_FAILED_SEARCH_MSG
       ELSE IF op = "manage_mixamo" /\ args.operation = "search"
       THEN ~ret.value.success /\ ret.value.error = SERVICE_AUTH_MSG
       ELSE ItemRecord.error \in {AUTH_FAILED_SEARCH_MSG, SERVICE_AUTH_MSG}

\* C11: a search request answered 401 ends the search: no request for a
\* further term is issued, and what the caller gets is an authentication
\* error, not "not found" and not a generic failure.
C11_UnauthorizedEndsSearch ==
    lastSearch.status = 401 =>
        /\ ~SearchGoesOn
        /\ ItemOver => AuthOutcome

(***************************************************************************)
(* The primary character.                                                  *)
(***************************************************************************)
\* get_primary_character, called by itself, has ended on the 401 of
\* _request: only that answer puts the message of AuthenticationError into
\* what is raised
PrimaryRejected ==
    /\ op = "get_primary_character" /\ pc = "done"
    /\ ret.kind = "raise" /\ IsSubstr(SERVICE_AUTH_MSG, ret.value.message)

\* C12: get_primary_character with a token the remote service rejects (401)
\* raises AuthenticationError.
C12_RejectedTokenRaisesAuthError ==
    PrimaryRejected => ret.value.class = "AuthenticationError"

(***************************************************************************)
(* Search results.                                                         *)
(***************************************************************************)
\* no two elements of anims have the same identifier
UniqueIds(anims) ==
    \A i \in 1..Len(anims), j \in 1..Len(anims) : i # j => anims[i].id # anims[j].id

\* a search called for itself (MixamoClient.search, or search_animations
\* through handle_search) has returned a list
SearchReturned ==
    /\ pc = "done" /\ ret.kind = "return"
    /\ \/ op = "search"
       \/ op = "manage_mixamo" /\ args.operation = "search" /\ ret.value.success

\* C13: whatever the answers, with an item in the answers to several terms
\* or twice in one answer, the list a search accumulates and returns never
\* holds two results with the same identifier.
C13_UniqueIdentifiers ==
    /\ pc \in {"search", "s_search"} => UniqueIds(loc.anims)
    /\ SearchReturned => UniqueIds(ret.value.animations)

\* handle_search has returned two results although an answer repeated an
\* identifier
C13_Witness ==
    /\ SearchReturned /\ op = "manage_mixamo"
    /\ lastSearch.repeat
    /\ reqs.search = 3
    /\ Len(ret.value.animations) = 2

\* C14: search(query, limit) returns at most limit results, whatever the
\* answers: the list it accumulates for its caller and the list it returns
\* are never longer than limit.
C14_AtMostLimit ==
    /\ (pc \in {"search", "s_search"} /\ loc.limit >= 1) => Len(loc.anims) <= loc.limit
    /\ SearchReturned => Len(ret.value.animations) <= args.limit

\* the search will issue no request for a further term of its expansion
\* although terms are left
TermsLeft == pc \in {"search", "s_search"} /\ loc.t >= 1 /\ loc.t <= Len(loc.terms)

\* C15: once the number of unique results accumulated reaches limit, the
\* search issues no further request: the terms left are not looked up.
C15_StopsAtLimit ==
    (TermsLeft /\ Len(loc.anims) >= loc.limit) => ~SearchGoesOn

\* one step of the program, seen from the search loop: a request that fails
\* (a status other than 200, or a transport error) only skips its term: the
\* results so far are kept, nothing is returned or raised, and the terms
\* left are still to be queried; and a list that is returned is the list
\* accumulated from the terms that succeeded
C16_Step ==
    /\ (reqs'.search = reqs.search + 1 /\ lastSearch'.status # 200) =>
          /\ pc' = pc /\ ret' = ret
          /\ loc'.anims = loc.anims /\ loc'.t = loc.t + 1
          /\ loc'.t <= Len(loc'.terms) => SearchGoesOn'
    /\ SearchReturned' => ret'.value.animations = loc'.anims

\* C16: the failure of one term's request is not fatal to the search: the
\* term is skipped, the remaining terms are still queried, and the results
\* of the other terms are returned.
C16_TermFailureIsSkipped == [][C16_Step]_vars

\* MixamoClient.search queried all five terms of "run", the last request
\* failed at the transport layer, and the result of another term is returned
C16_Witness ==
    /\ op = "search" /\ pc = "done" /\ ret.kind = "return"
    /\ reqs.search = 5
    /\ lastSearch.status = TransportError /\ lastSearch.ok
    /\ ret.value.total = 1

\* every search request of the item in progress failed, and the item is over
AllTermsFailed == lastSearch.status # -1 /\ ~lastSearch.ok /\ ItemOver

\* the error given to the caller of a search, or recorded for the item that
\* relied on it
OutcomeError ==
    IF op = "search" \/ (op = "manage_mixamo" /\ args.operation = "search")
    THEN ret.value.error
    ELSE ItemRecord.error

\* the "not found" condition of a search for kw whose requests succeeded
\* without results
NotFoundErrors(kw) ==
    { "Animation not found: " \o kw,
      "No animations found for '" \o kw \o "'",
      "No animations found for query: " \o kw }

\* C17: when every term's request fails outright, what the caller of search
\* is given, and what is recorded for the download or batch item that relied
\* on it, is an "all queries failed" condition that is not the "not found"
\* condition of requests that succeed without results.
C17_AllFailedIsNotNotFound ==
    AllTermsFailed =>
        /\ ret.kind # "raise"
        /\ OutcomeError \notin NotFoundErrors(loc.kw)

(***************************************************************************)
(* The pure functions, called by themselves: the keyword expansions of the *)
(* client and of the service.  A call is the name of the function and its  *)
(* argument; one step applies the function.                                *)
(***************************************************************************)
\* the canonical keywords of a synonym table
CanonicalKeys(T) == { T[i][1] : i \in 1..Len(T) }

\* the synonyms of a table, all entries together
Synonyms(T) == UNION { { T[i][2][j] : j \in 1..Len(T[i][2]) } : i \in 1..Len(T) }

\* queries that are no canonical keyword: unknown words, in other letter
\* case and with blanks around them
OtherQueries == {"xyz-unknown", "xyzabc123", " XYZ-Unknown ", "Macarena", " RUN "}

\* the queries the expansions are called with
ExpansionQueries ==
    CanonicalKeys(KEYWORD_MAPPINGS) \cup CanonicalKeys(ANIMATION_KEYWORD_MAP)
    \cup Synonyms(ANIMATION_KEYWORD_MAP) \cup OtherQueries

ExpansionCalls ==
    { [op |-> f, arg |-> q] :
        f \in {"get_search_queries", "expand_search_keywords"}, q \in ExpansionQueries }

\* the program state a call of a pure function leaves alone
Idle ==
    /\ idx = 0 /\ results = <<>> /\ loc = NoLoc /\ job = NoJob /\ reqs = NoRequests
    /\ lastPoll = NoPoll /\ lastExport = NoExport /\ lastSearch = NoSearch
    /\ disk = {} /\ session = NoSession /\ cancelled = FALSE

\* the call returns v
F_Return(v) ==
    /\ ret' = Return(v)
    /\ pc' = "done"
    /\ UNCHANGED <<op, args, idx, results, loc, job, reqs, lastPoll, lastExport,
                   lastSearch, disk, session, cancelled>>

F_get_search_queries ==
    /\ pc = "call" /\ op = "get_search_queries"
    /\ F_Return(get_search_queries(args.arg))

F_expand_search_keywords ==
    /\ pc = "call" /\ op = "expand_search_keywords"
    /\ F_Return(expand_search_keywords(args.arg))

(***************************************************************************)
(* The animation details (the export metadata) and the two builders that   *)
(* turn their gms_hash into the gms_hash of the export request.  A Python  *)
(* value is its type, its elements when it is a list, its str(), its       *)
(* repr() and its truth value.                                             *)
(***************************************************************************)
MaxParams == 2

RECURSIVE JoinFrom(_, _, _)
JoinFrom(strs, i, sep) ==
    IF i > Len(strs) THEN ""
    ELSE IF i = Len(strs) THEN strs[i]
    ELSE strs[i] \o sep \o JoinFrom(strs, i + 1, sep)

\* sep.join(strs)
Join(strs, sep) == JoinFrom(strs, 1, sep)

PyScalar(t, s, r, truthy) ==
    [py |-> t, items |-> <<>>, str |-> s, repr |-> r, truthy |-> truthy]

ListRepr(items) == "[" \o Join([i \in 1..Len(items) |-> items[i].repr], ", ") \o "]"

PyList(items) ==
    [py |-> "list", items |-> items, str |-> ListRepr(items), repr |-> ListRepr(items),
     truthy |-> Len(items) > 0]

PyNone == PyScalar("NoneType", "None", "None", FALSE)
PyInt(n) == PyScalar("int", ToString(n), ToString(n), n # 0)
PyStr(s) == PyScalar("str", s, "'" \o s \o "'", s # "")
PyFalse == PyScalar("bool", "False", "False", FALSE)
PyTrue == PyScalar("bool", "True", "True", TRUE)
PyFloat(s) == PyScalar("float", s, s, TRUE)

\* the field of a dict that has no such key
PyAbsent == PyScalar("<absent>", "", "", FALSE)

\* entries of a params list: [name, value] pairs, and entries that are none
WellFormedEntries ==
    { PyList(<<PyStr("a"), PyInt(1)>>), PyList(<<PyStr("b"), PyInt(2)>>),
      PyList(<<PyStr("c"), PyNone>>) }

MalformedEntries ==
    { PyList(<<PyStr("a")>>), PyList(<<>>), PyInt(5), PyNone, PyStr("x") }

ParamEntries == WellFormedEntries \cup MalformedEntries

ParamLists ==
    UNION { { PyList(items) : items \in [1..n -> ParamEntries] } : n \in 0..MaxParams }

\* values of the params field that are no list
NonListParams == { PyInt(7), PyInt(0), PyNone, PyStr(""), PyStr("abc"), PyFalse }

\* gms_hash of the animation details: the keys it has, and the values of its
\* params, trim and overdrive fields
GmsHashWith(keys, params, trim, overdrive) ==
    [keys |-> keys, params |-> params, trim |-> trim, overdrive |-> overdrive]

\* a gms_hash without trim and overdrive
GmsHash(keys, params) == GmsHashWith(keys, params, PyAbsent, PyAbsent)

GmsHashes ==
    { GmsHash({}, PyNone), GmsHash({"model-id"}, PyNone) }
    \cup { GmsHash({"model-id", "params"}, v) : v \in ParamLists \cup NonListParams }

\* gms_hash.get("params", [])
GetParams(gms_hash) ==
    IF "params" \in gms_hash.keys THEN gms_hash.params ELSE PyList(<<>>)

\* the index-1 value of a [name, value] entry, as a string
IndexOne(p) == p.items[2].str

\* MixamoService._build_export_payload: the params string, or the exception
\* of p[1] on a list that has no index 1
S_params_string(gms_hash) ==
    LET params == GetParams(gms_hash)
        n == Len(params.items)
        short == \E i \in 1..n : params.items[i].py = "list" /\ Len(params.items[i].items) < 2
        param_values == [i \in 1..n |->
                            IF params.items[i].py = "list" THEN IndexOne(params.items[i])
                            ELSE params.items[i].str]
    IN  IF params.py = "list"
        THEN IF short THEN Raise("IndexError", "list index out of range")
             ELSE Return(IF n > 0 THEN Join(param_values, ",") ELSE "0")
        ELSE Return(params.str)

\* MixamoClient._build_gms_hash: the params string of the payload
C_params_string(gms_hash) ==
    LET params == GetParams(gms_hash)
        n == Len(params.items)
        param_values == [i \in 1..n |->
                            LET p == params.items[i]
                            IN  IF p.py = "list" /\ Len(p.items) > 1 THEN IndexOne(p)
                                ELSE IF p.truthy THEN p.str ELSE "0"]
    IN  IF params.py = "list"
        THEN Return(IF n > 0 THEN Join(param_values, ",") ELSE "0")
        ELSE Return(IF params.truthy THEN params.str ELSE "0")

\* every character of s is a decimal digit, and there is one
IsDigitString(s) == Len(s) > 0 /\ \A i \in 1..Len(s) : CharIn(CharAt(s, i), Digits)

DigitValue(c) == (CHOOSE i \in 1..Len(Digits) : CharAt(Digits, i) = c) - 1

RECURSIVE ParseFrom(_, _, _)
ParseFrom(s, i, acc) ==
    IF i > Len(s) THEN acc ELSE ParseFrom(s, i + 1, acc * 10 + DigitValue(CharAt(s, i)))

\* the number a string of decimal digits denotes
ParseInt(s) == ParseFrom(s, 1, 0)

\* the digits of a float's str() before its point
WholePart(s) == SubSeq(s, 1, (CHOOSE i \in 1..Len(s) : CharAt(s, i) = ".") - 1)

\* Python: int(v), for the values a JSON document holds (none is negative)
int(v) ==
    IF v.py = "int" THEN Return(ParseInt(v.str))
    ELSE IF v.py = "bool" THEN Return(IF v.truthy THEN 1 ELSE 0)
    ELSE IF v.py = "float" THEN Return(ParseInt(WholePart(v.str)))
    ELSE IF v.py = "str"
    THEN IF IsDigitString(StrStrip(v.str)) THEN Return(ParseInt(StrStrip(v.str)))
         ELSE Raise("ValueError", "invalid literal for int() with base 10: " \o v.repr)
    ELSE Raise("TypeError",
               "int() argument must be a string, a bytes-like object or a real number, not '"
               \o v.py \o "'")

\* values of the trim field
TrimValues ==
    { PyList(<<PyInt(5), PyStr("40")>>), PyList(<<PyInt(5), PyInt(40)>>),
      PyList(<<PyInt(1), PyInt(2), PyInt(3)>>), PyList(<<PyInt(5)>>), PyList(<<>>),
      PyList(<<PyFloat("4.7"), PyFloat("9.2")>>), PyList(<<PyStr("a"), PyStr("b")>>),
      PyList(<<PyNone, PyInt(3)>>), PyStr("ab"), PyInt(7), PyNone }

\* values of the overdrive field
OverdriveValues == { PyInt(0), PyInt(3), PyStr("1"), PyNone }

\* the trim every builder falls back to
DefaultTrim == PyList(<<PyInt(0), PyInt(100)>>)

\* gms_hash objects that differ in trim and overdrive
TrimHashes ==
    { GmsHashWith({"model-id"} \cup (IF t = PyAbsent THEN {} ELSE {"trim"})
                               \cup (IF o = PyAbsent THEN {} ELSE {"overdrive"}),
                  PyAbsent, t, o) :
        t \in TrimValues \cup {PyAbsent}, o \in OverdriveValues \cup {PyAbsent} }

\* the animation details: what the document is, and its gms_hash when it is
\* an object that holds one
\*   "null"           the document is null
\*   "no_details"     an object without "details"
\*   "details_null"   "details" is null
\*   "no_gms_hash"    "details" is an object without "gms_hash"
\*   "gms_hash_null"  "gms_hash" is null
\*   "gms_hash"       "gms_hash" is an object
AnimationDetails(meta, gms_hash) == [meta |-> meta, gms_hash |-> gms_hash]

EmptyHash == GmsHash({}, PyNone)

DetailsWithoutHash ==
    { AnimationDetails(m, EmptyHash) :
        m \in {"null", "no_details", "details_null", "no_gms_hash", "gms_hash_null"} }

AllDetails ==
    { AnimationDetails("gms_hash", g) : g \in GmsHashes \cup TrimHashes }
    \cup DetailsWithoutHash

\* the values of the gms_hash fields the model does not vary
SourceValue(key) ==
    IF key \in {"mirror", "inplace"} THEN PyTrue ELSE PyInt(1)

\* gms_hash.get(key, default) for those fields
Field(gms_hash, key, default) ==
    IF key \in gms_hash.keys THEN SourceValue(key) ELSE default

\* the gms_hash of an export request
BuiltHash(keys, model_id, mirror, trim, overdrive, params, arm_space, inplace) ==
    [keys |-> keys, model_id |-> model_id, mirror |-> mirror, trim |-> trim,
     overdrive |-> overdrive, params |-> params, arm_space |-> arm_space,
     inplace |-> inplace]

PayloadKeys == {"model-id", "mirror", "trim", "overdrive", "params", "arm-space", "inplace"}

\* the parameters a builder sends when the details have none
DefaultHash ==
    BuiltHash(PayloadKeys, PyInt(0), PyFalse, DefaultTrim, PyInt(0), "0", PyInt(0), PyFalse)

NoneHasNoGet == Raise("AttributeError", "'NoneType' object has no attribute 'get'")

\* MixamoService._build_export_payload: the trim of the payload
S_trim(gms_hash) ==
    LET trim == IF "trim" \in gms_hash.keys THEN gms_hash.trim ELSE DefaultTrim
        lo == int(trim.items[1])
        hi == int(trim.items[2])
    IN  IF trim.py = "list" /\ Len(trim.items) >= 2
        THEN IF lo.kind = "raise" THEN lo
             ELSE IF hi.kind = "raise" THEN hi
             ELSE Return(PyList(<<PyInt(lo.value), PyInt(hi.value)>>))
        ELSE Return(DefaultTrim)

\* MixamoService._build_export_payload: gms_hash[0] of the payload it
\* returns, or the exception that leaves it
build_export_payload(animation_details) ==
    LET gms_hash == animation_details.gms_hash
        params_string == S_params_string(gms_hash)
        trim == S_trim(gms_hash)
    IN  IF animation_details.meta \in {"null", "details_null", "gms_hash_null"}
        THEN NoneHasNoGet
        ELSE IF params_string.kind = "raise" THEN params_string
        ELSE IF trim.kind = "raise" THEN trim
        ELSE Return(BuiltHash(PayloadKeys, Field(gms_hash, "model-id", PyInt(0)),
                              Field(gms_hash, "mirror", PyFalse), trim.value, PyInt(0),
                              params_string.value, Field(gms_hash, "arm-space", PyInt(0)),
                              Field(gms_hash, "inplace", PyFalse)))

\* MixamoClient._build_gms_hash: the one element of the list it returns, or
\* the exception that leaves it
build_gms_hash(animation_details) ==
    LET gms_hash == animation_details.gms_hash
        copied(key, v) == IF key \in gms_hash.keys THEN v ELSE PyAbsent
    IN  IF animation_details.meta = "details_null" THEN NoneHasNoGet
        ELSE IF animation_details.meta # "gms_hash" \/ gms_hash.keys = {}
        THEN Return(DefaultHash)
        ELSE Return(BuiltHash(gms_hash.keys \cup {"params"},
                              Field(gms_hash, "model-id", PyAbsent),
                              Field(gms_hash, "mirror", PyAbsent),
                              copied("trim", gms_hash.trim),
                              copied("overdrive", gms_hash.overdrive),
                              C_params_string(gms_hash).value,
                              Field(gms_hash, "arm-space", PyAbsent),
                              Field(gms_hash, "inplace", PyAbsent)))

BuilderCalls ==
    { [op |-> f, arg |-> d] :
        f \in {"_build_export_payload", "_build_gms_hash"}, d \in AllDetails }

\* the builder ends as r says: with its value or with its exception
F_End(r) ==
    /\ ret' = r
    /\ pc' = "done"
    /\ UNCHANGED <<op, args, idx, results, loc, job, reqs, lastPoll, lastExport,
                   lastSearch, disk, session, cancelled>>

F_build_export_payload ==
    /\ pc = "call" /\ op = "_build_export_payload"
    /\ F_End(build_export_payload(args.arg))

F_build_gms_hash ==
    /\ pc = "call" /\ op = "_build_gms_hash"
    /\ F_End(build_gms_hash(args.arg))

\* the file names asked for, and the names of the animations found
FileNames ==
    {None, "", "Run Fast!.fbx", "walk cycle", "a/b c.FBX", "..", "idle.fbx", "C:\\tmp\\x"}

AnimationNames == {"Running", "Run Fast!.fbx", "Hip Hop (1)", "x", "../../up"}

NameCalls ==
    { [op |-> "safe_name", arg |-> [file_name |-> f, animation_name |-> a]] :
        f \in FileNames, a \in AnimationNames }

F_safe_name ==
    /\ pc = "call" /\ op = "safe_name"
    /\ F_Return(safe_name(args.arg.file_name, args.arg.animation_name))

\* the results a search has gathered before a response is merged: items of
\* the catalogue under distinct identifiers, the client's with an identifier
Gathered(flow) ==
    LET lists == UNION { [1..n -> Catalog] : n \in 0..MaxResults }
    IN  { a \in lists :
            /\ \A i, j \in 1..Len(a) : a[i].id = a[j].id => i = j
            /\ flow = "client" => \A i \in 1..Len(a) : a[i].id # "" }

\* the merge of one response into the results gathered so far, by search
\* (below its limit when the request is sent) and by search_animations
MergeCalls ==
    { c \in { [op |-> "merge",
                arg |-> [flow |-> "client", anims |-> a, items |-> r, limit |-> l]] :
                a \in Gathered("client"), r \in ResultLists(FALSE),
                l \in 1..(MaxLimit + 1) } :
        Len(c.arg.anims) < c.arg.limit }
    \cup
    { [op |-> "merge", arg |-> [flow |-> "service", anims |-> a, items |-> r, limit |-> 1]] :
        a \in Gathered("service"), r \in ResultLists(FALSE) }

F_merge ==
    /\ pc = "call" /\ op = "merge"
    /\ F_Return(IF args.arg.flow = "client"
                THEN C_Merge(args.arg.anims, args.arg.items, 1, args.arg.limit)
                ELSE S_Merge(args.arg.anims, args.arg.items, 1))

\* the metadata of the items of a run
RunDetails ==
    { AnimationDetails("null", EmptyHash),
      AnimationDetails("no_details", EmptyHash),
      AnimationDetails("gms_hash", EmptyHash),
      AnimationDetails("gms_hash", GmsHash({"model-id", "params"},
                                           PyList(<<PyList(<<PyStr("a"), PyInt(1)>>)>>))),
      AnimationDetails("gms_hash", GmsHash({"model-id", "params"}, PyStr("abc"))),
      AnimationDetails("gms_hash", GmsHashWith({"model-id", "trim", "overdrive"}, PyAbsent,
                                               PyList(<<PyInt(5), PyStr("40")>>), PyInt(3))),
      AnimationDetails("gms_hash", GmsHashWith({"model-id", "trim"}, PyAbsent,
                                               PyList(<<PyStr("a"), PyStr("b")>>),
                                               PyAbsent)) }

\* a run that builds the export parameters of two items, one after the other
RunCalls ==
    { [op |-> "export_params", arg |-> [builder |-> b, items |-> <<d1, d2>>]] :
        b \in {"_build_gms_hash", "_build_export_payload"},
        d1 \in RunDetails, d2 \in RunDetails }

\* a _build_gms_hash that writes the params string into the gms_hash it was
\* given instead of a copy
DetailsAfter_InPlace(builder, animation_details) ==
    IF /\ builder = "_build_gms_hash"
       /\ animation_details.meta = "gms_hash"
       /\ animation_details.gms_hash.keys # {}
    THEN [animation_details EXCEPT
             !.gms_hash.keys = @ \cup {"params"},
             !.gms_hash.params = PyStr(C_params_string(animation_details.gms_hash).value)]
    ELSE animation_details

\* the metadata object after a builder has run on it: _build_gms_hash
\* assigns to its local names and to the copy dict(gms_hash),
\* _build_export_payload to its local names and to a new dict
DetailsAfter(builder, animation_details) == animation_details

\* what the builder of the flow makes of the metadata of one item: it reads
\* its argument and, in the service, the configuration, nothing else
BuiltFor(builder, animation_details) ==
    IF builder = "_build_gms_hash" THEN build_gms_hash(animation_details)
    ELSE build_export_payload(animation_details)

\* the export parameters of the next item of the run are built.  An
\* exception of _build_gms_hash is caught by download and fails the item;
\* one of _build_export_payload is no MixamoError and ends the fetch
F_export_params ==
    /\ pc = "call" /\ op = "export_params"
    /\ idx < Len(args.arg.items)
    /\ LET d == args.arg.items[idx + 1]
           out == BuiltFor(args.arg.builder, d)
       IN  /\ results' = Append(results, [out |-> out,
                                          details |-> DetailsAfter(args.arg.builder, d)])
           /\ pc' = IF \/ idx + 1 = Len(args.arg.items)
                       \/ args.arg.builder = "_build_export_payload" /\ out.kind = "raise"
                    THEN "done" ELSE "call"
    /\ idx' = idx + 1
    /\ UNCHANGED <<op, args, loc, job, reqs, lastPoll, lastExport, lastSearch, ret, disk,
                   session, cancelled>>

FnCalls == ExpansionCalls \cup BuilderCalls \cup NameCalls \cup MergeCalls \cup RunCalls

FnInit ==
    /\ \E c \in FnCalls : args = c /\ op = c.op
    /\ pc = "call"
    /\ Idle
    /\ ret = NoRet

FnNext ==
    \/ F_get_search_queries
    \/ F_expand_search_keywords
    \/ F_build_export_payload
    \/ F_build_gms_hash
    \/ F_safe_name
    \/ F_merge
    \/ F_export_params

FnSpec == FnInit /\ [][FnNext]_vars

(***************************************************************************)
(* C18.  Expansion of a canonical keyword.                                 *)
(***************************************************************************)
\* a pure function has been called with q and has ended
Called(f, q) == pc = "done" /\ op = f /\ args.arg = q

\* no entry of the sequence occurs twice
NoDuplicates(seq) == \A i, j \in 1..Len(seq) : seq[i] = seq[j] => i = j

\* the call was an expansion of a canonical keyword of the function's table
ExpandedCanonical ==
    /\ pc = "done"
    /\ \/ op = "get_search_queries" /\ args.arg \in CanonicalKeys(KEYWORD_MAPPINGS)
       \/ op = "expand_search_keywords" /\ args.arg \in CanonicalKeys(ANIMATION_KEYWORD_MAP)

\* C18: for every canonical keyword k of the synonym table, the expansion of
\* k (expand_search_keywords in the service, get_search_queries in the
\* client) has k as its first element and contains no duplicate entries.
C18_CanonicalFirstNoDuplicates ==
    ExpandedCanonical =>
        /\ ret.kind = "return"
        /\ ret.value[1] = args.arg
        /\ NoDuplicates(ret.value)

(***************************************************************************)
(* C19.  Expansion of a query that matches nothing.                        *)
(***************************************************************************)
\* a and b match: one is a substring of the other
Matches(a, b) == IsSubstr(a, b) \/ IsSubstr(b, a)

\* a canonical tag of the service's table matches q
TagMatches(q) == \E k \in CanonicalKeys(ANIMATION_KEYWORD_MAP) : Matches(k, q)

\* a synonym of the service's table matches q
SynonymMatches(q) == \E v \in Synonyms(ANIMATION_KEYWORD_MAP) : Matches(v, q)

ExpandedQuery == pc = "done" /\ op = "expand_search_keywords"

BuiltParams ==
    /\ pc = "done"
    /\ op \in {"_build_export_payload", "_build_gms_hash"}
    /\ args.arg.meta = "gms_hash"
    /\ "params" \in args.arg.gms_hash.keys

\* every entry of the list is a [name, value] pair
WellFormed(params) == \A i \in 1..Len(params.items) : params.items[i] \in WellFormedEntries

\* the index-1 values of a list of pairs, comma-joined in order
JoinedValues(params) ==
    Join([i \in 1..Len(params.items) |-> IndexOne(params.items[i])], ",")

\* C20: the export payload builder turns a params field that is a list of
\* [name, value] pairs into the comma-joined string of the index-1 values
\* in order, an empty list into the literal string "0", and a non-list value
\* into its direct string form, and does not fail on any list of well-formed
\* or malformed entries.
C20_ParamsString ==
    BuiltParams =>
        LET params == args.arg.gms_hash.params
        IN  /\ ret.kind = "return"
            /\ (params.py = "list" /\ params.items = <<>>) => ret.value.params = "0"
            /\ (params.py = "list" /\ params.items # <<>> /\ WellFormed(params))
                   => ret.value.params = JoinedValues(params)
            /\ params.py # "list" => ret.value.params = params.str

(***************************************************************************)
(* C21.  The trim of the export payload.                                   *)
(***************************************************************************)
Builders == {"_build_export_payload", "_build_gms_hash"}

\* a builder has ended on a gms_hash object that has fields, none of them
\* params
BuiltFromHash ==
    /\ pc = "done" /\ op \in Builders
    /\ args.arg.meta = "gms_hash"
    /\ args.arg.gms_hash.keys # {}
    /\ "params" \notin args.arg.gms_hash.keys

\* the gms_hash has a trim of two elements that both convert to integers
NumericPair(gms_hash) ==
    /\ "trim" \in gms_hash.keys
    /\ gms_hash.trim.py = "list" /\ Len(gms_hash.trim.items) = 2
    /\ \A i \in 1..2 : int(gms_hash.trim.items[i]).kind = "return"

\* both ends of a numeric pair, coerced to integers
Coerced(trim) == PyList(<<PyInt(int(trim.items[1]).value), PyInt(int(trim.items[2]).value)>>)

\* C21: the built trim is always a pair of integers: when the source trim
\* is a two-element numeric pair both ends are coerced to integers
\* ([5, '40'] gives [5, 40]); in every other case (absent, wrong length, not
\* a list) it is [0, 100].
C21_TrimIsIntegerPair ==
    BuiltFromHash =>
        /\ ret.kind = "return"
        /\ ret.value.trim = IF NumericPair(args.arg.gms_hash)
                            THEN Coerced(args.arg.gms_hash.trim)
                            ELSE DefaultTrim

(***************************************************************************)
(* C22.  The overdrive of the export payload.                              *)
(***************************************************************************)
\* C22: every export request carries overdrive = 0 in its export
\* parameters, whatever overdrive value the remote metadata contained.
C22_OverdriveIsZero ==
    (pc = "done" /\ op \in Builders /\ ret.kind = "return")
        => ret.value.overdrive = PyInt(0)

(***************************************************************************)
(* C23.  Details that are missing or null.                                 *)
(***************************************************************************)
\* C23: when the remote metadata object is missing or null, or lacks
\* details or gms_hash, the payload builder does not fail and yields the
\* default parameters (model-id 0, mirror false, trim [0, 100], overdrive 0,
\* params "0", arm-space 0, inplace false), so that the export is submitted.
C23_MissingDetailsGiveDefaults ==
    (pc = "done" /\ op \in Builders /\ args.arg.meta # "gms_hash")
        => ret = Return(DefaultHash)

(***************************************************************************)
(* C24.  The name of the file MixamoClient.download writes.                *)
(***************************************************************************)
\* the name the file name is derived from: the override if given, else the
\* name of the animation
NameSource == IF args.arg.file_name \notin {None, ""} THEN args.arg.file_name
              ELSE args.arg.animation_name

\* the character the derived name has in place of c
Sanitized(c) == IF IsAlnum(c) \/ c \in {".", "_", "-"} THEN c ELSE "_"

\* C24: the persisted file name is derived from the caller-supplied
\* override if given, else the resolved animation name, by replacing every
\* character outside {alphanumeric, '.', '_', '-', space} with '_', then
\* every space with '_', then appending '.fbx' only if the name does not
\* already end with it; 'Run Fast!.fbx' gives 'Run_Fast_.fbx'.
C24_FileName ==
    (pc = "done" /\ op = "safe_name") =>
        LET stem == SubSeq(ret.value, 1, Len(NameSource))
        IN  /\ Len(ret.value) >= Len(NameSource)
            /\ \A i \in 1..Len(NameSource) :
                  CharAt(stem, i) = Sanitized(CharAt(NameSource, i))
            /\ ret.value = IF EndsWith(stem, ".fbx") THEN stem ELSE stem \o ".fbx"
            /\ NameSource = "Run Fast!.fbx" => ret.value = "Run_Fast_.fbx"

\* the file name of the example has been derived from an override
C24_Witness ==
    /\ pc = "done" /\ op = "safe_name"
    /\ args.arg.file_name = "Run Fast!.fbx"
    /\ ret.value = "Run_Fast_.fbx"

(***************************************************************************)
(* C25.  A failed retrieval.                                               *)
(***************************************************************************)
\* the path the item in progress is written to
TargetPath ==
    IF IsClient THEN C_file_path(loc.animation_name) ELSE S_file_path(loc.animation_name)

\* the step is a retrieval: the request, and the write if it comes to that
Retrieval == reqs'.retrieve = reqs.retrieve + 1

\* the step ends the item with a record that says it failed
RecordedFailed ==
    IF op = "download" THEN ret'.kind = "return" /\ ~ret'.value.success
    ELSE /\ Len(results') = Len(results) + 1
         /\ IF IsClient THEN ~results'[idx].success
            ELSE results'[idx].status \in {"error", "export_failed"}

\* the step ends the item with a record that says it succeeded
RecordedSuccess ==
    IF op = "download" THEN ret'.kind = "return" /\ ret'.value.success
    ELSE /\ Len(results') = Len(results) + 1
         /\ IF IsClient THEN results'[idx].success
            ELSE results'[idx].status = "completed"

C25_Step ==
    Retrieval =>
        \/ RecordedSuccess /\ File(TargetPath, TRUE) \in disk'
        \/ /\ RecordedFailed
           /\ File(TargetPath, FALSE) \notin disk'

\* C25: if the retrieval request returns a non-success status, or an error
\* occurs while the payload is being written to disk, the item is recorded
\* as failed (never as success) and no partially written file is left at
\* the target path.
C25_FailedRetrievalLeavesNothing == [][C25_Step]_vars

(***************************************************************************)
(* C26.  One keyword at a time.                                            *)
(***************************************************************************)
\* the step issues a remote request
Requests == reqs' # reqs /\ reqs' # NoRequests

C26_Step ==
    (InBatch /\ idx >= 1 /\ Requests) => (Len(results) = idx - 1 /\ idx' = idx)

\* C26: batch items are processed strictly sequentially: while the batch
\* runs, the keyword in progress is the one after the records produced so
\* far or the one just recorded, and no remote request for a keyword is
\* issued before the records of all keywords before it have been produced.
C26_Sequential ==
    /\ [](InBatch /\ idx >= 1 /\ pc # "done" => Len(results) \in {idx - 1, idx})
    /\ [][C26_Step]_vars

\* a request has been issued for the second keyword of a batch
C26_Witness ==
    /\ InBatch /\ idx = 2 /\ Len(results) = 1
    /\ TotalRequests >= 1

(***************************************************************************)
(* C27.  The pacing delay.                                                 *)
(***************************************************************************)
\* C27: between the completion of any batch item and the first remote
\* request of the next item a pacing delay is always inserted, whatever the
\* outcome of the completed item: the loop goes over to the next keyword
\* only through its sleep.
C27_AlwaysPaced ==
    [][(InBatch /\ idx >= 1 /\ idx' = idx + 1) => pc \in {"pace", "s_pace"}]_vars

(***************************************************************************)
(* C28.  The single-item download, end to end.                             *)
(***************************************************************************)
\* the endpoints of a download, in the order of the pipeline
Pipeline == <<"characters", "search", "details", "export", "monitor", "retrieve">>

\* download has been called for the keyword "run"
RunDownload == op = "download" /\ args.query = "run" /\ args.token

\* the scenario is over: the one search returned the item abc123, the export
\* was accepted, the one poll answered completed with a download URL, and
\* the retrieval delivered the file
Scenario ==
    /\ RunDownload /\ pc = "done"
    /\ reqs.search = 1 /\ lastSearch.status = 200 /\ loc.animation_id = "abc123"
    /\ reqs.details = 1
    /\ reqs.export = 1 /\ lastExport \in {200, 202}
    /\ reqs.monitor = 1 /\ PollCompleted(lastPoll) /\ Truthy(lastPoll.job_result)
    /\ reqs.retrieve = 1 /\ \E f \in disk : f.whole

\* the result is a success whose file path ends in the sanitized name of
\* the animation and the export extension
ScenarioSucceeds ==
    /\ ret.kind = "return" /\ ret.value.success
    /\ EndsWith(ret.value.file_path, "/" \o safe_name(None, loc.animation_name))
    /\ EndsWith(ret.value.file_path, ".fbx")
    /\ File(ret.value.file_path, TRUE) \in disk

\* no request of a later endpoint has been issued without one of each
\* endpoint before it (the lookup of the character is made or not)
InOrder ==
    \A i, j \in 2..Len(Pipeline) :
        (i < j /\ reqs[Pipeline[j]] >= 1) => reqs[Pipeline[i]] >= 1

\* a request is issued only while no request of a later endpoint has been
OrderStep ==
    \A i, j \in 1..Len(Pipeline) :
        (i < j /\ reqs'[Pipeline[i]] > reqs[Pipeline[i]]) => reqs[Pipeline[j]] = 0

\* C28 as stated: in the scenario the download returns success with a file
\* path ending in the sanitized name plus ".fbx", and the requests it has
\* issued are a search, the metadata, the export, a poll and the retrieval,
\* in this order, and no other.
C28_FiveRequestsInOrder ==
    /\ [](Scenario => (ScenarioSucceeds /\ reqs.characters = 0))
    /\ [](RunDownload => InOrder)
    /\ [][RunDownload => OrderStep]_vars

\* C28, amended: in the scenario the download returns success with a file
\* path ending in the sanitized name plus ".fbx"; called with the default
\* character it first looks up the primary character, and then, as with any
\* other character, it issues its requests in the order search, metadata,
\* export, poll, retrieval.
C28_EndToEnd ==
    /\ [](Scenario => (ScenarioSucceeds /\ reqs.characters = IF args.charDefault THEN 1 ELSE 0))
    /\ [](RunDownload => InOrder)
    /\ [][RunDownload => OrderStep]_vars

\* the scenario has run, with the lookup of the primary character before it
C28_Witness ==
    /\ Scenario /\ args.charDefault
    /\ ret.value.file_path = "out/Running.fbx"

(***************************************************************************)
(* Cancellation.                                                           *)
(***************************************************************************)
\* the call ended with the CancelledError, which reached its caller
CancellationPropagated ==
    /\ pc = "done"
    /\ ret.kind = "raise"
    /\ ret.value.class = "CancelledError"

\* once the task is cancelled no request is issued, no item is started and
\* no record is added
C29_Step == cancelled => UNCHANGED <<reqs, idx, results, ret, pc>>

\* the step the cancellation arrives in issues at most the monitor request
\* the task was awaiting, goes to no retrieval, starts no item and adds no
\* record of a failed or timed-out item
C29_Arrival ==
    (~cancelled /\ cancelled') =>
        /\ pc \in {"poll", "s_poll"}
        /\ reqs'.retrieve = reqs.retrieve
        /\ reqs'.monitor \in {reqs.monitor, reqs.monitor + 1}
        /\ idx' = idx
        /\ results' = results
        /\ pc' = "done"

\* C29: a cancellation that arrives while the polling loop waits between two
\* polls or awaits a poll response stops the loop: no later monitor poll, no
\* retrieval and no later batch item follows it, and the call ends with the
\* CancelledError instead of a failed or timed-out record.
C29_CancellationStopsPolling ==
    /\ [](cancelled => CancellationPropagated)
    /\ [][C29_Arrival /\ C29_Step]_vars

\* a batch cancelled in the polling of an item that is not its last
C29_Witness ==
    /\ cancelled
    /\ InBatch
    /\ idx < Len(args.keywords)
    /\ reqs.monitor >= 1
    /\ CancellationPropagated

(***************************************************************************)
(* The HTTP session.                                                       *)
(***************************************************************************)
\* a step that sends a request (a batch starts the count of each item anew)
Requesting == reqs' # reqs /\ reqs' # NoRequests

\* a request was sent over the one session the instance ever creates, and
\* no session is closed while the call runs
SessionState ==
    /\ session.created <= 1
    /\ TotalRequests > 0 => session.created = 1
    /\ session.closed <= session.created
    /\ session.open <=> session.closed < session.created
    /\ pc # "done" => session.closed = 0

\* manage_mixamo has ended, by a return or by an exception, with the session
\* of its service closed
ServiceClosed == (op = "manage_mixamo" /\ pc = "done") => ~session.open

\* a session is created only by a request that finds none open, a request
\* that finds one open uses it, and the server's shutdown closes the
\* client's session
SessionStep ==
    /\ session'.created > session.created => (Requesting /\ ~session.open)
    /\ (Requesting /\ session.open) => session'.created = session.created
    /\ (op # "manage_mixamo" /\ session'.closed > session.closed) =>
           (pc = "done" /\ ~session'.open /\ reqs' = reqs)

\* C30: the HTTP session of an instance is created by its first request,
\* every later request reuses the open session, manage_mixamo closes the
\* session of the service it constructed however it ends (validation error,
\* result or exception), and the server's shutdown closes the client's.
C30_SessionLifecycle ==
    /\ [](SessionState /\ ServiceClosed)
    /\ [][SessionStep]_vars

\* manage_mixamo left by an exception after several requests over one
\* session, which its finally clause closed
C30_Witness ==
    /\ op = "manage_mixamo"
    /\ pc = "done"
    /\ ret.kind = "raise"
    /\ TotalRequests >= 2
    /\ session = [open |-> FALSE, created |-> 1, closed |-> 1]

(***************************************************************************)
(* Validation of the arguments of manage_mixamo.                           *)
(***************************************************************************)
\* the operations manage_mixamo knows
KnownOperations == {"search", "fetch", "upload", "list_keywords", "configure"}

\* what is wrong with an authenticated call: the word its error must carry,
\* or None when nothing is wrong
Problem ==
    IF args.operation \notin KnownOperations THEN "unknown"
    ELSE IF args.operation = "search" /\ ~Truthy(args.query) THEN "query"
    ELSE IF args.operation = "fetch" /\ args.keywords = <<>> THEN "animations"
    ELSE IF args.operation = "fetch" /\ ~args.output_dir THEN "output"
    ELSE IF args.operation = "upload" /\ ~args.character_path THEN "path"
    ELSE None

\* an authenticated manage_mixamo call with an unknown operation or without
\* an argument its operation requires
InvalidCall == op = "manage_mixamo" /\ args.token /\ Problem # None

\* C31: an authenticated manage_mixamo call with an unknown operation or a
\* missing required argument (query for search, animations or output_dir
\* for fetch, character_path for upload) sends no request, and returns
\* success = false with an error that names the problem, together with
\* available_operations when the operation is unknown.
C31_InvalidCallIsRejected ==
    InvalidCall =>
        /\ TotalRequests = 0
        /\ session.created = 0
        /\ pc \in {"manage_mixamo", "done"}
        /\ pc = "done" =>
              /\ ret.kind = "return"
              /\ ~ret.value.success
              /\ IsSubstr(Problem, StrLower(ret.value.error))
              /\ Problem = "unknown" => "available_operations" \in DOMAIN ret.value

\* a fetch without output directory has been rejected
C31_Witness ==
    /\ InvalidCall
    /\ pc = "done"
    /\ args.operation = "fetch"
    /\ args.keywords # <<>>
    /\ ~args.output_dir
    /\ ret.value.error = "Output directory required for fetch operation"

(***************************************************************************)
(* The life of an export job.                                              *)
(***************************************************************************)
\* the job has reached one of its two final states
Terminal(j) == j.status \in {"completed", "failed"}

\* the position of a status on the way pending -> processing -> final
Rank(status) ==
    IF status = "pending" THEN 1
    ELSE IF status = "processing" THEN 2
    ELSE IF status \in {"completed", "failed"} THEN 3
    ELSE 0

\* the loop of fetch_animations_for_character goes to its next query, whose
\* export will create a job of its own
NextItem == idx' = idx + 1 /\ job' = NoJob

\* one step of the job: a final job is left as it is until the loop drops
\* it, a status never goes back, and only export_animation and
\* _monitor_export (and upload_character, which creates the job it
\* monitors) write to it
C32_Step ==
    /\ Terminal(job) => (job' = job \/ NextItem)
    /\ (job' # job /\ ~NextItem) =>
          /\ pc \in {"s_details", "s_export", "s_poll", "s_upload"}
          /\ Rank(job'.status) > Rank(job.status)
          /\ job.status = None => job' = DownloadJob("processing", None, None)

\* C32: the status of an export job only moves forward along pending ->
\* processing -> {completed, failed}; once it is completed or failed no
\* later step changes its status, download reference or error message; and
\* only the export and polling flow that created the job changes it.
C32_JobLifecycle ==
    /\ [](job.status \in {None, "pending", "processing", "completed", "failed"})
    /\ [][C32_Step]_vars

\* a completed job after the retrieval that read its download reference
C32_Witness ==
    /\ IsFetch
    /\ job.status = "completed"
    /\ Truthy(job.download_url)
    /\ reqs.retrieve = 1
    /\ pc = "s_pace"

(***************************************************************************)
(* The identifier that is exported.                                        *)
(***************************************************************************)
\* the item in progress has its identifier and is on its way to the export
\* or past it
Exporting ==
    /\ op \in {"download", "batch_download"} \/ IsFetch
    /\ pc \in {"details", "export", "poll", "retrieve",
               "s_details", "s_export", "s_poll", "s_retrieve"}

\* the search of the item ends: the step that hands its outcome on
SearchEnds ==
    /\ op \in {"download", "batch_download"} \/ IsFetch
    /\ pc \in {"search", "s_search"}
    /\ pc' \notin {"search", "s_search"}

\* the identifier the item exports, given the input it was called with
C33_State ==
    /\ Exporting =>
          IF is_uuid(loc.kw)
          THEN loc.animation_id = loc.kw /\ reqs.search = 0
          ELSE reqs.search >= 1
    /\ (reqs.details > 0 \/ reqs.export > 0) => loc.animation_id # None

\* the search hands on the identifier of its first result, or, without a
\* result, ends the item before any export
C33_Step ==
    SearchEnds =>
        IF loc.anims # <<>>
        THEN pc' \in {"details", "s_details"} /\ loc'.animation_id = loc.anims[1].id
        ELSE ~Exporting' /\ reqs'.export = 0

\* C33: the identifier exported for a request is exactly one remote
\* identifier: an input in UUID format is exported as it is, without any
\* search; any other input is resolved by a search whose first result gives
\* the identifier; and when the search has no result no export is submitted.
C33_OneIdentifier ==
    /\ []C33_State
    /\ [][C33_Step]_vars

(***************************************************************************)
(* The order of the search results.                                        *)
(***************************************************************************)
\* the positions of a sequence of items at which an identifier occurs for
\* the first time
FirstOccurrences(items) ==
    { i \in 1..Len(items) : \A j \in 1..(i - 1) : items[j].id # items[i].id }

\* the items at those positions, in the order of the positions
FirstSeen(items) ==
    LET S == FirstOccurrences(items)
        at == [k \in 1..Cardinality(S) |->
                  CHOOSE i \in S : Cardinality({j \in S : j < i}) = k - 1]
    IN  [k \in 1..Cardinality(S) |-> items[at[k]]]

\* the items of a response the client's search takes: those with an identifier
Identified(items) ==
    LET S == { i \in 1..Len(items) : items[i].id # "" }
        at == [k \in 1..Cardinality(S) |->
                  CHOOSE i \in S : Cardinality({j \in S : j < i}) = k - 1]
    IN  [k \in 1..Cardinality(S) |-> items[at[k]]]

\* the first n entries of a sequence, all of it when it is shorter
Take(seq, n) == SubSeq(seq, 1, IF Len(seq) < n THEN Len(seq) ELSE n)

\* a response has been merged into the gathered results
Merged == pc = "done" /\ op = "merge"

\* C34: the results of a search are in first-seen order: they are the items
\* under the identifiers in the order these first occur when the responses
\* are scanned one after the other, and a later occurrence of an identifier
\* already seen neither moves nor replaces the earlier entry.
C34_FirstSeenOrder ==
    Merged =>
        LET a == args.arg.anims
            r == args.arg.items
        IN  /\ Take(ret.value, Len(a)) = a
            /\ IF args.arg.flow = "client"
               THEN ret.value = Take(FirstSeen(a \o Identified(r)), args.arg.limit)
               ELSE ret.value = FirstSeen(a \o r)

\* a response that repeats an identifier gathered before and brings a new one
C34_Witness ==
    /\ Merged
    /\ Len(args.arg.anims) = 1
    /\ Len(args.arg.items) = 2
    /\ args.arg.items[1] # args.arg.anims[1]
    /\ args.arg.items[1].id # ""
    /\ args.arg.items[2] = args.arg.anims[1]
    /\ Len(ret.value) = 2

(***************************************************************************)
(* The number of lookups of one search.                                    *)
(***************************************************************************)
\* the loop of a search is running: loc.t is the position of its next term
Searching == pc \in {"search", "s_search"} /\ loc.t >= 1

\* C35: one search issues at most 3 lookups, those for the first 3 terms of
\* the expansion of its query however long the expansion is, and exactly
\* one lookup for each term it has tried.
C35_LookupsCapped ==
    /\ reqs.search <= ServiceMaxTerms
    /\ Searching => reqs.search = loc.t - 1

(***************************************************************************)
(* The file path of the service.                                           *)
(***************************************************************************)
\* C36: the file path MixamoService.download_animation returns for a
\* completed job ends with ".fbx" exactly once, the extension being added
\* only to a sanitized name that does not end with it already, and has "_"
\* in the place of every space of the name.
C36_ServiceFilePath ==
    IsFetch =>
        \A i \in 1..Len(results) :
            results[i].status = "completed" =>
                LET p == results[i].file_path
                IN  /\ EndsWith(p, ".fbx")
                    /\ ~EndsWith(p, ".fbx.fbx")
                    /\ ~CharIn(" ", p)
                    /\ p = PathJoin(OUTPUT_DIR, safe_name(None, results[i].animation_name))

(***************************************************************************)
(* Letter case and blanks of the query.                                    *)
(***************************************************************************)
\* the query in lower case and without the blanks around it
Normalised(query) == StrStrip(StrLower(query))

ReportedTimedOut ==
    /\ op \in {"download", "batch_download"} \/ IsFetch
    /\ ItemOver
    /\ IF op = "download" THEN ret.kind = "return"
       ELSE idx >= 1 /\ Len(results) = idx
    /\ ItemRecord.error = IF IsClient THEN CLIENT_TIMEOUT_MSG ELSE SERVICE_TIMEOUT_MSG

\* C38: an item is reported as timed out only when all the monitor polls the
\* attempt ceiling allows were used and none of them answered a terminal
\* status; a poll that answers completed, be it with an empty or missing
\* job_result, never leads to a time-out.
C38_TimeoutOnlyAtCeiling ==
    ReportedTimedOut =>
        /\ reqs.monitor = Ceiling
        /\ ~PollTerminal(lastPoll)

(***************************************************************************)
(* The file stays in the output directory.                                 *)
(***************************************************************************)
\* the name of a file has been derived
SafeNamed == pc = "done" /\ op = "safe_name"

\* a name that Path(output_dir) / name puts right into output_dir: it is
\* one path component, and not the directory itself or its parent
OneComponent(name) ==
    /\ name \notin {"", ".", ".."}
    /\ ~CharIn("/", name)
    /\ ~CharIn("\\", name)

\* C39: whatever the animation name or the file name asked for, separator
\* characters included, the file MixamoClient.download writes is a direct
\* child of the output directory: the sanitized name has only alphanumerics,
\* ".", "_" and "-", and sanitizing it again leaves it as it is.
C39_DirectChild ==
    SafeNamed =>
        /\ \A i \in 1..Len(ret.value) :
              IsAlnum(CharAt(ret.value, i)) \/ CharIn(CharAt(ret.value, i), "._-")
        /\ OneComponent(ret.value)
        /\ safe_name(ret.value, args.arg.animation_name) = ret.value
        /\ safe_name(None, ret.value) = ret.value

\* names with separators have been sanitized
C39_Witness ==
    /\ SafeNamed
    /\ args.arg.file_name = "C:\\tmp\\x"
    /\ args.arg.animation_name = "../../up"
    /\ ret.value = "C__tmp_x.fbx"

====
